---- MODULE Spec2Model ----
(***************************************************************************)
(* Configuration synthesis for MultiClusterIngress resources               *)
(* (getBackendServersFromMCIs and its helpers) and the admission check     *)
(* CheckMCI.  One synthesis pass is a sequence of phases over the list     *)
(* mcis: createUpstreamsFromMCIs, createServersFromMCIs, the location      *)
(* wiring loop, the canary merge and the final assembly.                   *)
(*                                                                         *)
(* Strings that the code orders, measures or formats are modelled as       *)
(* sequences: a path is the sequence of its bytes ("/" is <<47>>, "a" is   *)
(* 97, "b" is 98), an upstream name is the sequence of the parts that      *)
(* fmt.Sprintf joins with "-".                                             *)
(***************************************************************************)
EXTENDS Integers, Sequences, FiniteSets, TLC

VARIABLES
    store,        \* n.store.ListMultiClusterIngresses(): the resources already admitted
    cand,         \* the resource handed to CheckMCI: <<>> (nil) or <<mci>>
    cfg,          \* the controller's flags and cluster-wide settings
    endpoints,    \* the Endpoint Resolver: service name -> "ok" | "err" |
                  \* "noclusterip" (pod endpoints, but no cluster address)
    secrets,      \* n.store.GetLocalSSLCert: secret name -> what the lookup gives
    mode,         \* "idle" | "sync" | "check": which caller runs the pass
    pc,           \* position inside the running pass / admission check
    pass,         \* "full" | "reduced": which synthesis CheckMCI is running
    mcis,         \* the list a pass synthesizes
    upstreams,    \* map upstream name -> Backend
    servers,      \* map hostname -> Server
    canaryMCIs,   \* indexes (into mcis) of the resources set aside as canary
    aUpstreams,   \* the returned backend list
    aServers,     \* the returned server list
    pcfgServers,  \* Configuration.Servers as getConfigurationFromMCI returns it
    checkErr,     \* the value CheckMCI returns: NoError or an error record
    errorCount,   \* metricCollector.IncCheckErrorCount calls
    checkCount,   \* metricCollector.IncCheckCount calls
    calls         \* the calls made so far, in order: "synth" (getConfigurationFromMCI),
                  \* "render:ok" | "render:err" (generateTemplate),
                  \* "test:ok" | "test:err" (testTemplate)

vars == <<store, cand, cfg, endpoints, secrets, mode, pc, pass, mcis, upstreams, servers,
          canaryMCIs, aUpstreams, aServers, pcfgServers, checkErr, errorCount,
          checkCount, calls>>

------------------------------------------------------------------------------
\* Generic helpers on sequences and maps

SeqToSet(s) == {s[i] : i \in 1..Len(s)}

Put(m, k, v) == [x \in (DOMAIN m) \cup {k} |-> IF x = k THEN v ELSE m[x]]

Delete(m, k) == [x \in (DOMAIN m) \ {k} |-> m[x]]

EmptyMap == [x \in {} |-> 0]

\* the strings the model compares with Go's <, in byte order
StringOrder ==
    <<"80", "INVALID", "_", "a.com", "b.com", "c.com", "custom-default-backend", "d.com",
      "ns1", "ns2", "s1", "s2", "s3", "s4", "upstream-default-backend">>

StrRank(x) == CHOOSE i \in 1..Len(StringOrder) : StringOrder[i] = x

\* Go's string comparison a < b on byte sequences
RECURSIVE StrLess(_, _)
StrLess(a, b) ==
    IF Len(b) = 0 THEN FALSE
    ELSE IF Len(a) = 0 THEN TRUE
    ELSE IF Head(a) # Head(b) THEN Head(a) < Head(b)
    ELSE StrLess(Tail(a), Tail(b))

------------------------------------------------------------------------------
\* Reserved names and the resource model

defServerName == "_"

rootLocation == <<47>>

defUpstreamName == <<"upstream-default-backend">>

NilService == [Name |-> "", Port |-> ""]

\* fmt.Sprintf("%s-%s-%d", namespace, service.Name, service.Port)
upstreamName(namespace, service) ==
    IF service = NilService THEN <<namespace, "INVALID">>
    ELSE <<namespace, service.Name, service.Port>>

\* parser.DefaultAnnotationsPrefix
DefaultAnnotationsPrefix == "nginx.ingress.kubernetes.io"

\* the raw annotation `name` under the configured prefix: its value, or ""
\* when the resource does not carry it.  mci.Annotations is a set of
\* [Prefix, Name, Value] records, one per annotation key.
annotationValue(mci, name) ==
    LET hit == {a \in mci.Annotations :
                   a.Prefix = cfg.AnnotationsPrefix /\ a.Name = name}
    IN  IF hit = {} THEN "" ELSE (CHOOSE a \in hit : TRUE).Value

\* parser.GetBoolAnnotationFromMCI: [value, err]; err is "missing" for
\* errors.ErrMissingAnnotations, "invalid" for a value that is no boolean
GetBoolAnnotationFromMCI(name, mci) ==
    LET v == annotationValue(mci, name)
    IN  IF v = "" THEN [value |-> FALSE, err |-> "missing"]
        ELSE IF v = "true" THEN [value |-> TRUE, err |-> ""]
        ELSE IF v = "false" THEN [value |-> FALSE, err |-> ""]
        ELSE [value |-> FALSE, err |-> "invalid"]

\* parser.GetIntAnnotationFromMCI for the weights the model uses
GetIntAnnotationFromMCI(name, mci) ==
    LET v == annotationValue(mci, name)
    IN  IF v = "10" THEN 10 ELSE IF v = "50" THEN 50 ELSE 0

\* the Service objects of the store; s4 declares no port
Services == {"s1", "s2", "s3", "s4"}

ServicePorts(name) == IF name = "s4" THEN <<>> ELSE <<"80">>

\* defaultbackend.ParseByMCI: the service the "default-backend" annotation
\* names, as <<namespace, name>>, or <<>> (nil) when the annotation is
\* missing or n.store.GetService fails
ParseByMCI(mci) ==
    LET s == annotationValue(mci, "default-backend")
    IN  IF s = "" THEN <<>>
        ELSE IF s \notin Services THEN <<>>
        ELSE <<mci.Namespace, s>>

\* the "server-alias" annotation as a list: the value split at the commas
splitAliases(v) ==
    CASE v = "" -> <<>>
      [] v = "b.com" -> <<"b.com">>
      [] v = "c.com" -> <<"c.com">>
      [] v = "d.com,b.com,a.com,c.com,d.com"
             -> <<"d.com", "b.com", "a.com", "c.com", "d.com">>

\* mci.ParsedAnnotations as the Annotation Extractor derives it from the raw
\* annotations of the resource
ParsedAnnotations(mci) ==
    [Canary |-> [Enabled |-> GetBoolAnnotationFromMCI("canary", mci).value,
                 Weight |-> GetIntAnnotationFromMCI("canary-weight", mci),
                 WeightTotal |->
                     IF annotationValue(mci, "canary-weight-total") = "" THEN 100
                     ELSE GetIntAnnotationFromMCI("canary-weight-total", mci)],
     LoadBalancing |-> annotationValue(mci, "load-balance"),
     ServiceUpstream |-> GetBoolAnnotationFromMCI("service-upstream", mci).value,
     DefaultBackend |-> ParseByMCI(mci),
     Aliases |-> splitAliases(annotationValue(mci, "server-alias")),
     CustomHTTPErrors |-> annotationValue(mci, "custom-http-errors"),
     Redirect |-> annotationValue(mci, "permanent-redirect"),
     Rewrite |-> annotationValue(mci, "rewrite-target"),
     SessionAffinity |-> [Type |-> annotationValue(mci, "affinity"),
                          Cookie |-> [Name |-> annotationValue(mci,
                                                   "session-cookie-name")],
                          CanaryBehavior |->
                              annotationValue(mci, "affinity-canary-behavior")]]

NoPolicy == [Weight |-> 0, WeightTotal |-> 0]

newUpstream(name) ==
    [Name |-> name,
     NoServer |-> FALSE,
     Endpoints |-> <<>>,
     Port |-> "",
     LoadBalancing |-> "",
     TrafficShapingPolicy |-> NoPolicy,
     AlternativeBackends |-> <<>>,
     SessionAffinity |-> [AffinityType |-> "",
                          CookieSessionAffinity |-> [Name |-> "",
                                                     Locations |-> EmptyMap]],
     SSLPassthrough |-> FALSE]

\* n.getDefaultUpstream(): the default backend, which always has an endpoint
getDefaultUpstream ==
    [newUpstream(defUpstreamName) EXCEPT !.Endpoints = <<"default-backend-endpoint">>]

\* n.serviceEndpoints(svcKey, port): the endpoints of the service, or an error
serviceEndpoints(eps, service) ==
    IF eps[service.Name] \in {"ok", "noclusterip"}
    THEN <<<<service.Name, service.Port>>>>
    ELSE <<>>

------------------------------------------------------------------------------
\* Upstream Builder: createUpstreamsFromMCIs

\* n.getServiceClusterEndpoint: the service's cluster address, or an error
getServiceClusterEndpoint(eps, service) ==
    IF eps[service.Name] = "ok" THEN <<<<service.Name, "cluster-ip">>>> ELSE <<>>

\* the canary stamp of the default-backend branch
canaryStampDefault(b, anns) ==
    IF anns.Canary.Enabled
    THEN [b EXCEPT !.NoServer = TRUE,
                   !.TrafficShapingPolicy =
                       [Weight |-> anns.Canary.Weight,
                        WeightTotal |-> anns.Canary.WeightTotal]]
    ELSE b

\* the canary stamp of the rule/path branch (WeightTotal is not copied there)
canaryStampPath(b, anns) ==
    IF anns.Canary.Enabled
    THEN [b EXCEPT !.NoServer = TRUE,
                   !.TrafficShapingPolicy =
                       [Weight |-> anns.Canary.Weight,
                        WeightTotal |-> 0]]
    ELSE b

\* load balancing, service-upstream endpoint, canary stamp and endpoints of a
\* backend that was just created
populateUpstream(b, anns, eps, service, isDefault) ==
    LET b1 == [b EXCEPT !.LoadBalancing =
                   IF anns.LoadBalancing = "" THEN "round_robin"
                   ELSE anns.LoadBalancing]
        b2 == IF anns.ServiceUpstream
              THEN [b1 EXCEPT !.Endpoints = getServiceClusterEndpoint(eps, service)]
              ELSE b1
        b3 == IF isDefault THEN canaryStampDefault(b2, anns)
              ELSE canaryStampPath(b2, anns)
    IN  IF Len(b3.Endpoints) = 0
        THEN [b3 EXCEPT !.Endpoints = serviceEndpoints(eps, service)]
        ELSE b3

\* upstreamForDefaultBackend with the default-backend branch left out
upstreamForDefaultBackendSkipped(ups, mci, eps) == ups

\* lines 389-444: the resource's default backend always (re)creates its entry
upstreamForDefaultBackend(ups, mci, eps) ==
    IF mci.DefaultBackend.Nil \/ mci.DefaultBackend.Service = NilService
    THEN ups
    ELSE LET defBackend == upstreamName(mci.Namespace, mci.DefaultBackend.Service)
         IN  Put(ups, defBackend,
                 populateUpstream(newUpstream(defBackend), ParsedAnnotations(mci),
                                  eps, mci.DefaultBackend.Service, TRUE))

\* lines 451-518: one path of a rule creates its entry unless one exists
upstreamForPath(ups, mci, path, eps) ==
    IF path.Service = NilService THEN ups
    ELSE LET name == upstreamName(mci.Namespace, path.Service)
         IN  IF name \in DOMAIN ups THEN ups
             ELSE Put(ups, name,
                      populateUpstream([newUpstream(name) EXCEPT !.Port = path.Service.Port],
                                       ParsedAnnotations(mci), eps, path.Service, FALSE))

RECURSIVE upstreamsForPaths(_, _, _, _)
upstreamsForPaths(ups, mci, paths, eps) ==
    IF paths = <<>> THEN ups
    ELSE upstreamsForPaths(upstreamForPath(ups, mci, Head(paths), eps),
                           mci, Tail(paths), eps)

RECURSIVE upstreamsForRules(_, _, _, _)
upstreamsForRules(ups, mci, rules, eps) ==
    IF rules = <<>> THEN ups
    ELSE upstreamsForRules(
             IF Head(rules).HTTP
             THEN upstreamsForPaths(ups, mci, Head(rules).Paths, eps)
             ELSE ups,
             mci, Tail(rules), eps)

RECURSIVE upstreamsForMCIs(_, _, _)
upstreamsForMCIs(ups, list, eps) ==
    IF list = <<>> THEN ups
    ELSE upstreamsForMCIs(
             upstreamsForRules(upstreamForDefaultBackend(ups, Head(list), eps),
                               Head(list), Head(list).Rules, eps),
             Tail(list), eps)

createUpstreamsFromMCIs(list, eps) ==
    upstreamsForMCIs(Put(EmptyMap, defUpstreamName, getDefaultUpstream), list, eps)

------------------------------------------------------------------------------
\* Server Builder: createServersFromMCIs

\* a server without a certificate
NilCert == [Key |-> <<>>]

\* n.getDefaultSSLCertificate(): the cluster default certificate
getDefaultSSLCertificate == [Key |-> <<"default">>]

\* the certificate n.store.GetLocalSSLCert gives for the key namespace/name
SecretCert(namespace, name) == [Key |-> <<namespace, name>>]

SecretNames == {"cert1"}

\* a secret whose lookup fails
MissingSecret == [Err |-> TRUE, Certificate |-> FALSE, SAN |-> {}, CN |-> {}]

\* &ingress.Location{...}: the fields the annotations fill are zero
newLocation(path, pathType, isDefBackend, backend, i) ==
    [Path |-> path,
     PathType |-> pathType,
     IsDefBackend |-> isDefBackend,
     Backend |-> backend,
     MultiClusterIngress |-> i,
     DefaultBackend |-> <<>>,
     DefaultBackendUpstreamName |-> <<>>,
     CustomHTTPErrors |-> "",
     Redirect |-> "",
     Rewrite |-> ""]

\* locationApplyAnnotations: the location takes the policy of the resource
locationApplyAnnotations(loc, anns) ==
    [loc EXCEPT !.DefaultBackend = anns.DefaultBackend,
                !.CustomHTTPErrors = anns.CustomHTTPErrors,
                !.Redirect = anns.Redirect,
                !.Rewrite = anns.Rewrite]

\* the catch-all server with its root location on the default backend
defaultServer ==
    [Hostname |-> defServerName,
     SSLCert |-> getDefaultSSLCertificate,
     Aliases |-> <<>>,
     Locations |-> <<newLocation(rootLocation, "Prefix", TRUE, defUpstreamName, 0)>>]

\* lines 592-620: a default backend of a non-canary resource is bound to the
\* root location of the catch-all server
bindDefaultBackend(srv, ups, i, mci) ==
    IF mci.DefaultBackend.Nil \/ mci.DefaultBackend.Service = NilService
    THEN srv
    ELSE LET defUpstream == upstreamName(mci.Namespace, mci.DefaultBackend.Service)
         IN  IF defUpstream \notin DOMAIN ups THEN srv
             ELSE LET defLoc == srv[defServerName].Locations[1]
                      bound == [defLoc EXCEPT !.Backend = ups[defUpstream].Name,
                                              !.MultiClusterIngress = i]
                      applied == locationApplyAnnotations(
                                     [bound EXCEPT !.IsDefBackend = FALSE],
                                     ParsedAnnotations(mci))
                      final == IF defLoc.IsDefBackend /\ Len(mci.Rules) = 0
                               THEN [applied EXCEPT !.Redirect = defLoc.Redirect,
                                                    !.Rewrite = defLoc.Rewrite]
                               ELSE bound
                  IN  [srv EXCEPT ![defServerName].Locations[1] = final]

\* lines 584-597: the upstream the resource's placeholder locations point at
fallbackUpstream(ups, mci) ==
    IF mci.DefaultBackend.Nil \/ mci.DefaultBackend.Service = NilService
    THEN defUpstreamName
    ELSE LET defUpstream == upstreamName(mci.Namespace, mci.DefaultBackend.Service)
         IN  IF defUpstream \in DOMAIN ups THEN ups[defUpstream].Name
             ELSE defUpstreamName

ruleHost(rule) == IF rule.Host = "" THEN defServerName ELSE rule.Host

\* lines 622-652: a server with a placeholder root location for every new host
RECURSIVE serversForRules(_, _, _, _, _)
serversForRules(srv, un, i, anns, rules) ==
    IF rules = <<>> THEN srv
    ELSE LET host == ruleHost(Head(rules))
             loc == locationApplyAnnotations(
                        newLocation(rootLocation, "Prefix", TRUE, un, i), anns)
             next == IF host \in DOMAIN srv THEN srv
                     ELSE Put(srv, host,
                              [Hostname |-> host,
                               SSLCert |-> NilCert,
                               Aliases |-> <<>>,
                               Locations |-> <<loc>>])
         IN  serversForRules(next, un, i, anns, Tail(rules))

\* lines 576-653, resources i..Len(list) of the list
RECURSIVE serversForMCIs(_, _, _, _)
serversForMCIs(srv, ups, list, i) ==
    IF i > Len(list) THEN srv
    ELSE IF ParsedAnnotations(list[i]).Canary.Enabled
         THEN serversForMCIs(srv, ups, list, i + 1)
         ELSE serversForMCIs(
                  serversForRules(bindDefaultBackend(srv, ups, i, list[i]),
                                  fallbackUpstream(ups, list[i]), i,
                                  ParsedAnnotations(list[i]), list[i].Rules),
                  ups, list, i + 1)

\* toLowerCaseASCII on the host names of the model
toLowerCaseASCII(host) ==
    IF host = "A.COM" THEN "a.com"
    ELSE IF host = "B.COM" THEN "b.com"
    ELSE host

\* cert.Certificate.VerifyHostname(host): the host is one of the certificate's
\* subject alternative names
VerifyHostname(cert, host) == toLowerCaseASCII(host) \in cert.SAN

\* verifyHostname(host, cert.Certificate): the check against the Common Name
verifyHostname(host, cert) == toLowerCaseASCII(host) \in cert.CN

\* the secret names of lines 800-806: the TLS entries one of whose hosts is the
\* host, in order
RECURSIVE namedForHost(_, _)
namedForHost(tls, host) ==
    IF tls = <<>> THEN <<>>
    ELSE IF \E k \in 1..Len(Head(tls).Hosts) :
                toLowerCaseASCII(Head(tls).Hosts[k]) = toLowerCaseASCII(host)
    THEN <<Head(tls).SecretName>> \o namedForHost(Tail(tls), host)
    ELSE namedForHost(Tail(tls), host)

\* lines 809-834: the first TLS entry whose secret loads, holds a certificate
\* and validates the host
RECURSIVE matchingSecret(_, _)
matchingSecret(tls, host) ==
    IF tls = <<>> THEN ""
    ELSE LET name == Head(tls).SecretName
         IN  IF name = "" THEN matchingSecret(Tail(tls), host)
             ELSE IF secrets[name].Err THEN matchingSecret(Tail(tls), host)
             ELSE IF ~secrets[name].Certificate THEN matchingSecret(Tail(tls), host)
             ELSE IF ~VerifyHostname(secrets[name], host)
             THEN matchingSecret(Tail(tls), host)
             ELSE name

\* lines 791-837
extractTLSSecretNameFromMCI(host, mci) ==
    IF namedForHost(mci.TLS, host) # <<>> THEN Head(namedForHost(mci.TLS, host))
    ELSE matchingSecret(mci.TLS, host)

\* resolveCertificate without the validation of the host
resolveCertificateUnverified(host, mci) ==
    LET tlsSecretName == extractTLSSecretNameFromMCI(host, mci)
    IN  IF tlsSecretName = "" THEN getDefaultSSLCertificate
        ELSE IF secrets[tlsSecretName].Err THEN getDefaultSSLCertificate
        ELSE IF ~secrets[tlsSecretName].Certificate THEN getDefaultSSLCertificate
        ELSE SecretCert(mci.Namespace, tlsSecretName)

\* lines 713-750: the certificate the resource gives the server of the host
resolveCertificate(host, mci) ==
    LET tlsSecretName == extractTLSSecretNameFromMCI(host, mci)
    IN  IF tlsSecretName = "" THEN getDefaultSSLCertificate
        ELSE IF secrets[tlsSecretName].Err THEN getDefaultSSLCertificate
        ELSE IF ~secrets[tlsSecretName].Certificate THEN getDefaultSSLCertificate
        ELSE IF /\ ~VerifyHostname(secrets[tlsSecretName], host)
                /\ ~verifyHostname(host, secrets[tlsSecretName])
        THEN getDefaultSSLCertificate
        ELSE SecretCert(mci.Namespace, tlsSecretName)

\* lines 675-682: the aliases of the first resource that names some for the
\* host.  A state of the second loop is [srv, allAliases].
aliasesForHost(p, host, anns) ==
    IF Len(p.srv[host].Aliases) # 0 THEN p
    ELSE [srv |-> [p.srv EXCEPT ![host].Aliases = anns.Aliases],
          allAliases |-> IF host \in DOMAIN p.allAliases
                            /\ Len(p.allAliases[host]) # 0
                         THEN p.allAliases
                         ELSE Put(p.allAliases, host, anns.Aliases)]

\* certificateForHost without the test for a certificate the server has
certificateForHostLastWins(srv, host, mci) ==
    IF Len(mci.TLS) = 0 THEN srv
    ELSE [srv EXCEPT ![host].SSLCert = resolveCertificate(host, mci)]

\* lines 703-750: the certificate, unless the server has one or the resource
\* has no TLS section
certificateForHost(srv, host, mci) ==
    IF srv[host].SSLCert # NilCert \/ Len(mci.TLS) = 0 THEN srv
    ELSE [srv EXCEPT ![host].SSLCert = resolveCertificate(host, mci)]

\* lines 669-758: aliases and certificates of the servers of the rules of a
\* resource
RECURSIVE certificatesForRules(_, _, _)
certificatesForRules(p, mci, rules) ==
    IF rules = <<>> THEN p
    ELSE LET host == ruleHost(Head(rules))
             aliased == aliasesForHost(p, host, ParsedAnnotations(mci))
             next == [aliased EXCEPT !.srv = certificateForHost(@, host, mci)]
         IN  certificatesForRules(next, mci, Tail(rules))

\* lines 656-759, resources i..Len(list) of the list
RECURSIVE certificatesForMCIs(_, _, _)
certificatesForMCIs(p, list, i) ==
    IF i > Len(list) THEN p
    ELSE IF ParsedAnnotations(list[i]).Canary.Enabled
         THEN certificatesForMCIs(p, list, i + 1)
         ELSE certificatesForMCIs(certificatesForRules(p, list[i], list[i].Rules),
                                  list, i + 1)

\* sets.String.List(): the members in ascending order
RECURSIVE SortedList(_)
SortedList(S) ==
    IF S = {} THEN <<>>
    ELSE LET m == CHOOSE x \in S : \A y \in S : StrRank(x) <= StrRank(y)
         IN  <<m>> \o SortedList(S \ {m})

\* uniqueAliases that keeps every alias
uniqueAliasesKeepsAll(host, hostAliases, srv) == hostAliases

\* lines 766-783: the aliases of a host without the host itself, the hosts of
\* the servers and repetitions
uniqueAliases(host, hostAliases, srv) ==
    SortedList({alias \in SeqToSet(hostAliases) :
                   alias # host /\ alias \notin DOMAIN srv})

\* lines 761-784
deduplicateAliases(p) ==
    [host \in DOMAIN p.srv |->
        IF host \notin DOMAIN p.allAliases THEN p.srv[host]
        ELSE [p.srv[host] EXCEPT !.Aliases =
                 uniqueAliases(host, p.allAliases[host], p.srv)]]

createServersFromMCIs(list, ups) ==
    deduplicateAliases(
        certificatesForMCIs(
            [srv |-> serversForMCIs(Put(EmptyMap, defServerName, defaultServer),
                                    ups, list, 1),
             allAliases |-> EmptyMap],
            list, 1))

------------------------------------------------------------------------------
\* Location wiring: the loop of getBackendServersFromMCIs over resources,
\* rules and paths.  A wiring state is [ups, srv].

nginxPathOf(path) == IF path.Path = <<>> THEN rootLocation ELSE path.Path

\* positions of the locations of locs whose path is p
samePathAt(locs, p) == {k \in 1..Len(locs) : locs[k].Path = p}

FirstOf(S) == CHOOSE k \in S : \A j \in S : k <= j

\* lines 180-237: the scan stops at the first location with the same path
wireLocation(locs, i, path, ups, anns) ==
    LET nginxPath == nginxPathOf(path)
        same == samePathAt(locs, nginxPath)
        newLoc == locationApplyAnnotations(
                      newLocation(nginxPath, path.PathType, FALSE, ups.Name, i), anns)
    IN  IF same = {} THEN Append(locs, newLoc)
        ELSE LET k == FirstOf(same)
             IN  IF locs[k].PathType # path.PathType THEN Append(locs, newLoc)
                 ELSE IF ~locs[k].IsDefBackend THEN locs
                 ELSE [locs EXCEPT ![k] =
                          locationApplyAnnotations(
                              [@ EXCEPT !.Backend = ups.Name,
                                        !.IsDefBackend = FALSE,
                                        !.MultiClusterIngress = i], anns)]

\* lines 264-275: the path is appended to the cookie locations of every name
\* of names, in turn
RECURSIVE cookieLocations(_, _, _)
cookieLocations(locs, names, path) ==
    IF names = <<>> THEN locs
    ELSE cookieLocations(
             Put(locs, Head(names),
                 Append(IF Head(names) \in DOMAIN locs THEN locs[Head(names)]
                        ELSE <<>>, path)),
             Tail(names), path)

\* lines 239-276: the backend takes the affinity type of the first resource
\* wired to it, and the cookie policy of a resource that asks for cookie
\* affinity
wireAffinity(b, anns, host, path, aliases) ==
    LET typed == IF b.SessionAffinity.AffinityType = ""
                 THEN [b EXCEPT !.SessionAffinity.AffinityType =
                                    anns.SessionAffinity.Type]
                 ELSE b
    IN  IF anns.SessionAffinity.Type # "cookie" THEN typed
        ELSE [typed EXCEPT
                 !.SessionAffinity.CookieSessionAffinity.Name =
                     anns.SessionAffinity.Cookie.Name,
                 !.SessionAffinity.CookieSessionAffinity.Locations =
                     cookieLocations(@, <<host>> \o aliases, path.Path)]

\* lines 159-277, one path
wirePath(w, i, mci, host, path) ==
    IF path.Service = NilService THEN w
    ELSE LET upsName == upstreamName(mci.Namespace, path.Service)
             ups == w.ups[upsName]
             server == IF host \in DOMAIN w.srv THEN host ELSE defServerName
         IN  IF ups.NoServer THEN w
             ELSE [ups |-> [w.ups EXCEPT ![upsName] =
                               wireAffinity(ups, ParsedAnnotations(mci), host, path,
                                            w.srv[server].Aliases)],
                   srv |-> [w.srv EXCEPT ![server].Locations =
                               wireLocation(@, i, path, ups,
                                            ParsedAnnotations(mci))]]

RECURSIVE wirePaths(_, _, _, _, _)
wirePaths(w, i, mci, host, paths) ==
    IF paths = <<>> THEN w
    ELSE wirePaths(wirePath(w, i, mci, host, Head(paths)), i, mci, host, Tail(paths))

RECURSIVE wireRules(_, _, _, _)
wireRules(w, i, mci, rules) ==
    IF rules = <<>> THEN w
    ELSE wireRules(
             IF Head(rules).HTTP
             THEN wirePaths(w, i, mci, ruleHost(Head(rules)), Head(rules).Paths)
             ELSE w,
             i, mci, Tail(rules))

RECURSIVE wireMCIs(_, _, _)
wireMCIs(w, list, i) ==
    IF i > Len(list) THEN w
    ELSE wireMCIs(wireRules(w, i, list[i], list[i].Rules), list, i + 1)

\* lines 280-283: the canary resources, in list order
canaryIndexes(list) ==
    LET RECURSIVE from(_)
        from(i) == IF i > Len(list) THEN <<>>
                   ELSE IF ParsedAnnotations(list[i]).Canary.Enabled
                        THEN <<i>> \o from(i + 1)
                        ELSE from(i + 1)
    IN  from(1)

------------------------------------------------------------------------------
\* Canary Merger: mergeAlternativeBackendsByMCI.  A merge state is
\* [ups, panicked]; panicked records a nil dereference, which ends the pass.

canMergeBackend(primary, alternative) ==
    /\ primary.Name # alternative.Name
    /\ primary.Name # defUpstreamName
    /\ ~primary.NoServer

\* mergeAlternativeBackendByMCI without the scan for a name already present
mergeAlternativeBackendByMCIAlwaysAppends(ups, mci, priName, altName) ==
    IF ups[priName].NoServer THEN [ups |-> ups, ok |-> FALSE]
    ELSE [ups |-> [ups EXCEPT ![priName].AlternativeBackends = Append(@, altName)],
          ok |-> TRUE]

\* lines 949-971; the result is [ups, ok]
mergeAlternativeBackendByMCI(ups, mci, priName, altName) ==
    IF ups[priName].NoServer THEN [ups |-> ups, ok |-> FALSE]
    ELSE IF altName \in SeqToSet(ups[priName].AlternativeBackends)
    THEN [ups |-> ups, ok |-> TRUE]
    ELSE LET copied ==
                 IF ParsedAnnotations(mci).SessionAffinity.CanaryBehavior # "legacy"
                 THEN [ups EXCEPT ![altName].SessionAffinity =
                                      ups[priName].SessionAffinity]
                 ELSE ups
         IN  [ups |-> [copied EXCEPT ![priName].AlternativeBackends =
                                         Append(@, altName)],
              ok |-> TRUE]

\* the scans of lines 864-879 and 923-938 over locations k..Len(locs); a scan
\* state is [ups, merged, altEqualsPri, panicked].  anyPath is TRUE for the
\* default-backend scan, which does not compare paths.  Line 932 dereferences
\* both path types once the backends can merge and the paths are equal; a nil
\* path type (written "") is a nil dereference.
RECURSIVE scanLocations(_, _, _, _, _, _, _)
scanLocations(sc, mci, locs, k, altName, anyPath, path) ==
    IF k > Len(locs) THEN sc
    ELSE IF locs[k].Backend \notin DOMAIN sc.ups
    THEN [sc EXCEPT !.panicked = TRUE]
    ELSE LET priUps == sc.ups[locs[k].Backend]
             altUps == sc.ups[altName]
         IN  IF altUps.Name = priUps.Name
             THEN [sc EXCEPT !.altEqualsPri = TRUE]
             ELSE IF /\ ~anyPath
                     /\ canMergeBackend(priUps, altUps)
                     /\ locs[k].Path = path.Path
                     /\ (locs[k].PathType = "" \/ path.PathType = "")
             THEN [sc EXCEPT !.panicked = TRUE]
             ELSE IF /\ canMergeBackend(priUps, altUps)
                     /\ (anyPath \/ (/\ locs[k].Path = path.Path
                                     /\ locs[k].PathType = path.PathType))
             THEN LET r == mergeAlternativeBackendByMCI(sc.ups, mci,
                                                        priUps.Name, altName)
                  IN  scanLocations([sc EXCEPT !.ups = r.ups, !.merged = r.ok],
                                    mci, locs, k + 1, altName, anyPath, path)
             ELSE scanLocations(sc, mci, locs, k + 1, altName, anyPath, path)

\* lines 861-884 and 910-943: scan, then delete the alternative backend when
\* nothing matched
mergeInto(m, mci, locs, altName, anyPath, path) ==
    LET sc == scanLocations([ups |-> m.ups, merged |-> FALSE,
                             altEqualsPri |-> FALSE, panicked |-> FALSE],
                            mci, locs, 1, altName, anyPath, path)
    IN  IF sc.panicked THEN [ups |-> sc.ups, panicked |-> TRUE]
        ELSE IF ~sc.altEqualsPri /\ ~sc.merged
        THEN [ups |-> Delete(sc.ups, altName), panicked |-> FALSE]
        ELSE [ups |-> sc.ups, panicked |-> FALSE]

\* lines 852-886: the default backend of the canary resource
mergeDefaultBackend(m, mci, srv) ==
    IF mci.DefaultBackend.Nil THEN m
    ELSE LET upsName == upstreamName(mci.Namespace, mci.DefaultBackend.Service)
         IN  IF upsName \notin DOMAIN m.ups THEN m
             ELSE mergeInto(m, mci, srv[defServerName].Locations, upsName,
                            TRUE, [Path |-> <<>>, PathType |-> ""])

\* lines 894-944, one path of a rule
mergePath(m, mci, srv, host, path) ==
    IF m.panicked \/ path.Service = NilService THEN m
    ELSE LET upsName == upstreamName(mci.Namespace, path.Service)
         IN  IF upsName \notin DOMAIN m.ups THEN m
             ELSE IF host \notin DOMAIN srv THEN m
             ELSE mergeInto(m, mci, srv[host].Locations, upsName, FALSE, path)

RECURSIVE mergePaths(_, _, _, _, _)
mergePaths(m, mci, srv, host, paths) ==
    IF paths = <<>> THEN m
    ELSE mergePaths(mergePath(m, mci, srv, host, Head(paths)),
                    mci, srv, host, Tail(paths))

\* lines 888-945: rule.HTTP.Paths is read without a nil check
RECURSIVE mergeRules(_, _, _, _)
mergeRules(m, mci, srv, rules) ==
    IF m.panicked \/ rules = <<>> THEN m
    ELSE IF ~Head(rules).HTTP THEN [m EXCEPT !.panicked = TRUE]
    ELSE mergeRules(mergePaths(m, mci, srv, ruleHost(Head(rules)), Head(rules).Paths),
                    mci, srv, Tail(rules))

mergeAlternativeBackendsByMCI(m, mci, srv) ==
    LET d == mergeDefaultBackend(m, mci, srv)
    IN  IF d.panicked THEN d ELSE mergeRules(d, mci, srv, mci.Rules)

nonCanaryMCIExists(list, canaries) == Len(list) - Len(canaries) > 0

\* lines 286-290
RECURSIVE mergeCanaries(_, _, _, _)
mergeCanaries(m, list, canaries, srv) ==
    IF m.panicked \/ canaries = <<>> THEN m
    ELSE mergeCanaries(mergeAlternativeBackendsByMCI(m, list[Head(canaries)], srv),
                       list, Tail(canaries), srv)

mergeAll(ups, list, canaries, srv) ==
    IF nonCanaryMCIExists(list, canaries)
    THEN mergeCanaries([ups |-> ups, panicked |-> FALSE], list, canaries, srv)
    ELSE [ups |-> ups, panicked |-> FALSE]

------------------------------------------------------------------------------
\* Configuration Assembler: the end of getBackendServersFromMCIs

\* a.Name < b.Name for names given as their parts
RECURSIVE NameLess(_, _)
NameLess(a, b) ==
    IF Len(b) = 0 THEN FALSE
    ELSE IF Len(a) = 0 THEN TRUE
    ELSE IF Head(a) # Head(b) THEN StrRank(Head(a)) < StrRank(Head(b))
    ELSE NameLess(Tail(a), Tail(b))

\* the less functions handed to sort.SliceStable:
\*   lines 354-356  value.Locations[i].Path > value.Locations[j].Path
\*   lines 358-360  len(value.Locations[i].Path) > len(value.Locations[j].Path)
\*   lines 364-366  aUpstreams[a].Name < aUpstreams[b].Name
\*   lines 368-370  aServers[i].Hostname < aServers[j].Hostname
sliceLess(by, a, b) ==
    CASE by = "path" -> StrLess(b.Path, a.Path)
      [] by = "pathLen" -> Len(a.Path) > Len(b.Path)
      [] by = "upstreamName" -> NameLess(a.Name, b.Name)
      [] by = "hostname" -> StrRank(a.Hostname) < StrRank(b.Hostname)

\* sort.SliceStable: x goes before the first element it is less than
RECURSIVE InsertStable(_, _, _)
InsertStable(sorted, x, by) ==
    IF sorted = <<>> THEN <<x>>
    ELSE IF sliceLess(by, x, Head(sorted)) THEN <<x>> \o sorted
    ELSE <<Head(sorted)>> \o InsertStable(Tail(sorted), x, by)

RECURSIVE SliceStable(_, _)
SliceStable(list, by) ==
    IF list = <<>> THEN <<>>
    ELSE InsertStable(SliceStable(SubSeq(list, 1, Len(list) - 1), by),
                      list[Len(list)], by)

\* lines 354-360: by path descending, then by path length descending
sortLocations(locs) == SliceStable(SliceStable(locs, "path"), "pathLen")

\* the values of a map as a list (Go ranges over the map in any order; the
\* keys are distinct and the list is sorted by key afterwards)
RECURSIVE MapValues(_)
MapValues(m) ==
    IF DOMAIN m = {} THEN <<>>
    ELSE LET k == CHOOSE x \in DOMAIN m : TRUE
         IN  <<m[k]>> \o MapValues(Delete(m, k))

\* the keys of a map as a list
RECURSIVE MapKeys(_)
MapKeys(m) ==
    IF DOMAIN m = {} THEN <<>>
    ELSE LET k == CHOOSE x \in DOMAIN m : TRUE
         IN  <<k>> \o MapKeys(Delete(m, k))

\* shouldCreateUpstreamForLocationDefaultBackend: the location is served by
\* the upstream, names a custom default backend, and the upstream has no
\* endpoint or the location intercepts error codes
shouldCreateUpstreamForLocationDefaultBackend(upstream, location) ==
    /\ upstream.Name = location.Backend
    /\ Len(upstream.Endpoints) = 0 \/ location.CustomHTTPErrors # ""
    /\ location.DefaultBackend # <<>>

\* getEndpoints(location.DefaultBackend, &sp, TCP, GetServiceEndpoints)
getEndpoints(eps, name, port) == serviceEndpoints(eps, [Name |-> name, Port |-> port])

\* fmt.Sprintf("custom-default-backend-%v-%v", namespace, name)
customDefaultBackendName(service) == <<"custom-default-backend">> \o service

\* rewireLocation with the test of the upstream's endpoints left out
rewireLocationAlways(upstream, location, name) == [location EXCEPT !.Backend = name]

\* lines 327-332: the location moves to the custom default backend only when
\* its upstream has no endpoint
rewireLocation(upstream, location, name) ==
    IF Len(upstream.Endpoints) = 0
    THEN [location EXCEPT !.Backend = name]
    ELSE location

\* customDefaultBackend that never creates a backend
customDefaultBackendSkipped(upstream, location, eps) == [loc |-> location, nb |-> <<>>]

\* lines 303-333, one location against one upstream: the location as it is
\* left, and the backends appended to the list
customDefaultBackend(upstream, location, eps) ==
    LET same == [loc |-> location, nb |-> <<>>]
    IN  IF ~shouldCreateUpstreamForLocationDefaultBackend(upstream, location)
        THEN same
        ELSE IF Len(ServicePorts(location.DefaultBackend[2])) = 0 THEN same
        ELSE LET sp == ServicePorts(location.DefaultBackend[2])[1]
                 endps == getEndpoints(eps, location.DefaultBackend[2], sp)
                 name == customDefaultBackendName(location.DefaultBackend)
                 nb == [upstream EXCEPT !.Name = name, !.Endpoints = endps]
             IN  IF Len(endps) = 0 THEN same
                 ELSE [loc |-> rewireLocation(
                                   upstream,
                                   [location EXCEPT !.DefaultBackendUpstreamName = name],
                                   name),
                       nb |-> <<nb>>]

\* An assembly state is [srv, out]: the servers, and aUpstreams as appended
\* so far.

\* lines 302-346, locations k.. of one server
RECURSIVE customLocations(_, _, _, _, _)
customLocations(a, upstream, host, k, eps) ==
    IF k > Len(a.srv[host].Locations) THEN a
    ELSE LET r == customDefaultBackend(upstream, a.srv[host].Locations[k], eps)
         IN  customLocations([srv |-> [a.srv EXCEPT ![host].Locations[k] = r.loc],
                            out |-> a.out \o r.nb],
                           upstream, host, k + 1, eps)

\* lines 301-347, the servers in the order hosts
RECURSIVE customServers(_, _, _, _)
customServers(a, upstream, hosts, eps) ==
    IF hosts = <<>> THEN a
    ELSE customServers(customLocations(a, upstream, Head(hosts), 1, eps),
                     upstream, Tail(hosts), eps)

\* lines 294-350, the upstreams in the order given
RECURSIVE customUpstreams(_, _, _, _)
customUpstreams(a, ups, order, eps) ==
    IF order = <<>> THEN a
    ELSE LET upstream == ups[Head(order)]
             appended == [a EXCEPT !.out = Append(@, upstream)]
         IN  customUpstreams(IF upstream.Name = defUpstreamName THEN appended
                           ELSE customServers(appended, upstream, MapKeys(a.srv), eps),
                           ups, Tail(order), eps)

\* the upstreams for which the scan appends a custom default backend
synthesizing(ups, srv, eps) ==
    {u \in DOMAIN ups :
        /\ ups[u].Name # defUpstreamName
        /\ \E h \in DOMAIN srv : \E k \in 1..Len(srv[h].Locations) :
               customDefaultBackend(ups[u], srv[h].Locations[k], eps).nb # <<>>}

\* the orders in which range may go over the upstreams.  Only the order of
\* the upstreams that append a custom default backend can show in the sorted
\* list, since all other names are distinct.
upstreamOrders(ups, srv, eps) ==
    LET S == synthesizing(ups, srv, eps)
        rest == MapKeys([u \in DOMAIN ups \ S |-> ups[u]])
    IN  {f \o rest : f \in {g \in [1..Cardinality(S) -> S] :
                                  \A x, y \in 1..Cardinality(S) :
                                      x # y => g[x] # g[y]}}

\* lines 364-366
assembleUpstreams(out) == SliceStable(out, "upstreamName")

\* lines 352-362 and 368-370
assembleServers(srv) ==
    SliceStable(MapValues([h \in DOMAIN srv |->
                              [srv[h] EXCEPT !.Locations = sortLocations(@)]]),
                "hostname")

------------------------------------------------------------------------------
\* getConfigurationFromMCI: the servers of the Configuration

\* normalizePrefixPath: a prefix path ends in "/"
normalizePrefixPath(path) ==
    IF path = rootLocation THEN path
    ELSE IF path[Len(path)] # 47 THEN Append(path, 47)
    ELSE path

\* updateServerLocations (line 48): a Prefix location other than "/" becomes
\* the normalized prefix location plus, unless an Exact location of the path
\* exists, an Exact location of the path with the same owner and backend
RECURSIVE updateServerLocations(_, _)
updateServerLocations(locs, all) ==
    IF locs = <<>> THEN <<>>
    ELSE LET location == Head(locs)
             rest == updateServerLocations(Tail(locs), all)
         IN  IF location.Path = rootLocation \/ location.PathType # "Prefix"
             THEN <<location>> \o rest
             ELSE IF \E k \in 1..Len(all) :
                         all[k].PathType = "Exact" /\ all[k].Path = location.Path
             THEN <<[location EXCEPT !.Path = normalizePrefixPath(@)]>> \o rest
             ELSE <<[location EXCEPT !.Path = normalizePrefixPath(@)],
                    [location EXCEPT !.PathType = "Exact"]>> \o rest

configurationServers(list) ==
    [k \in 1..Len(list) |->
        [list[k] EXCEPT !.Locations = updateServerLocations(@, @)]]

------------------------------------------------------------------------------
\* Admission Validator: CheckMCI and checkOverlapWithMCI

NoError == [kind |-> "", host |-> "", path |-> <<>>, namespace |-> "", name |-> ""]

PolicyError(kind) == [NoError EXCEPT !.kind = kind]

\* lines 1172 and 1176: host and path is already defined in namespace/name
ConflictError(host, path, existing) ==
    [kind |-> "conflict", host |-> host, path |-> path,
     namespace |-> existing.Namespace, name |-> existing.Name]

\* lines 1188-1210: the owners (indexes into list) of the locations of the
\* server `hostname` at `path` that are not default-backend locations
mciForHostPath(hostname, path, srvList) ==
    LET RECURSIVE ofLocations(_)
        ofLocations(locs) ==
            IF locs = <<>> THEN <<>>
            ELSE IF Head(locs).Path # path \/ Head(locs).IsDefBackend
                 THEN ofLocations(Tail(locs))
                 ELSE <<Head(locs).MultiClusterIngress>> \o ofLocations(Tail(locs))
        RECURSIVE ofServers(_)
        ofServers(ss) ==
            IF ss = <<>> THEN <<>>
            ELSE IF Head(ss).Hostname # hostname THEN ofServers(Tail(ss))
                 ELSE ofLocations(Head(ss).Locations) \o ofServers(Tail(ss))
    IN  ofServers(srvList)

\* canaryConflict with || for && in the test of line 1171
RECURSIVE canaryConflictEitherCanary(_, _, _, _, _)
canaryConflictEitherCanary(mci, host, path, existing, list) ==
    IF existing = <<>> THEN NoError
    ELSE LET own == GetBoolAnnotationFromMCI("canary", mci)
             other == GetBoolAnnotationFromMCI("canary", list[Head(existing)])
         IN  IF own.value \/ other.value
             THEN ConflictError(host, path, list[Head(existing)])
             ELSE IF own.err = "missing" /\ other.err = "missing"
             THEN ConflictError(host, path, list[Head(existing)])
             ELSE canaryConflictEitherCanary(mci, host, path, Tail(existing), list)

\* lines 1166-1178: the first existing resource that conflicts, as an error;
\* NoError when none does
RECURSIVE canaryConflict(_, _, _, _, _)
canaryConflict(mci, host, path, existing, list) ==
    IF existing = <<>> THEN NoError
    ELSE LET own == GetBoolAnnotationFromMCI("canary", mci)
             other == GetBoolAnnotationFromMCI("canary", list[Head(existing)])
         IN  IF own.value /\ other.value
             THEN ConflictError(host, path, list[Head(existing)])
             ELSE IF own.err = "missing" /\ other.err = "missing"
             THEN ConflictError(host, path, list[Head(existing)])
             ELSE canaryConflict(mci, host, path, Tail(existing), list)

\* lines 1127-1183 as a scan over the (host, path) pairs of the candidate
\* that have a service backend, in rule and path order: the first pair with
\* an existing location decides
hostPaths(mci) ==
    LET RECURSIVE ofPaths(_, _)
        ofPaths(host, paths) ==
            IF paths = <<>> THEN <<>>
            ELSE IF Head(paths).Service = NilService THEN ofPaths(host, Tail(paths))
                 ELSE <<[host |-> host, path |-> nginxPathOf(Head(paths))]>>
                      \o ofPaths(host, Tail(paths))
        RECURSIVE ofRules(_)
        ofRules(rules) ==
            IF rules = <<>> THEN <<>>
            ELSE IF ~Head(rules).HTTP THEN ofRules(Tail(rules))
                 ELSE ofPaths(ruleHost(Head(rules)), Head(rules).Paths)
                      \o ofRules(Tail(rules))
    IN  ofRules(mci.Rules)

sameMCI(a, b) == a.Namespace = b.Namespace /\ a.Name = b.Name

RECURSIVE overlapFrom(_, _, _, _)
overlapFrom(mci, pairs, srvList, list) ==
    IF pairs = <<>> THEN NoError
    ELSE LET hp == Head(pairs)
             existingMCIs == mciForHostPath(hp.host, hp.path, srvList)
         IN  IF existingMCIs = <<>>
             THEN overlapFrom(mci, Tail(pairs), srvList, list)
             ELSE IF \E k \in 1..Len(existingMCIs) : sameMCI(list[existingMCIs[k]], mci)
             THEN NoError
             ELSE canaryConflict(mci, hp.host, hp.path, existingMCIs, list)

checkOverlapWithMCI(mci, srvList, list) ==
    overlapFrom(mci, hostPaths(mci), srvList, list)

\* karmada.SetDefaultNGINXPathType (line 1075): a path without a path type
\* gets Prefix
SetDefaultNGINXPathType(mci) ==
    [mci EXCEPT !.Rules =
        [r \in 1..Len(mci.Rules) |->
            [mci.Rules[r] EXCEPT !.Paths =
                [k \in 1..Len(mci.Rules[r].Paths) |->
                    IF mci.Rules[r].Paths[k].PathType = ""
                    THEN [mci.Rules[r].Paths[k] EXCEPT !.PathType = "Prefix"]
                    ELSE mci.Rules[r].Paths[k]]]]]

\* strings.Contains(value, word) on the annotation values of the model
Contains(value, word) ==
    value = word \/ <<value, word>> \in {<<"load_module x", "load_module">>}

\* strings.HasSuffix(key, "-snippet")
hasSnippetSuffix(name) ==
    name \in {"server-snippet", "configuration-snippet", "stream-snippet"}

\* strings.HasPrefix(key, "<prefix>/global-rate-limit")
hasGlobalRateLimitPrefix(name) ==
    name \in {"global-rate-limit", "global-rate-limit-window"}

\* lines 1050-1072 for one annotation: the error it is rejected with, or ""
annotationError(a) ==
    IF cfg.AnnotationsPrefix # DefaultAnnotationsPrefix
       /\ a.Prefix = DefaultAnnotationsPrefix
    THEN "prefix"
    ELSE IF a.Prefix = cfg.AnnotationsPrefix
            /\ \E w \in cfg.AnnotationValueWordBlocklist : Contains(a.Value, w)
    THEN "badword"
    ELSE IF ~cfg.AllowSnippetAnnotations /\ hasSnippetSuffix(a.Name)
    THEN "snippet"
    ELSE IF cfg.GlobalRateLimitMemcachedHost = ""
            /\ a.Prefix = cfg.AnnotationsPrefix /\ hasGlobalRateLimitPrefix(a.Name)
    THEN "global-rate-limit"
    ELSE ""

\* the errors the loop over the annotation map can return (Go ranges over it
\* in any order and returns at the first annotation that is rejected)
annotationErrors(mci) ==
    {annotationError(a) : a \in mci.Annotations} \ {""}

\* store.FilterMultiClusterIngress (lines 1079-1083): drop what the filter matches
RECURSIVE FilterMultiClusterIngress(_, _)
FilterMultiClusterIngress(list, mci) ==
    IF list = <<>> THEN <<>>
    ELSE IF sameMCI(Head(list), mci) THEN FilterMultiClusterIngress(Tail(list), mci)
    ELSE <<Head(list)>> \o FilterMultiClusterIngress(Tail(list), mci)

------------------------------------------------------------------------------
\* The state machine

unchangedInput == UNCHANGED <<store, cand, cfg, endpoints, secrets>>

unchangedPass == UNCHANGED <<upstreams, servers, canaryMCIs, aUpstreams, aServers,
                             pcfgServers>>

unchangedMetrics == UNCHANGED <<errorCount, checkCount, calls>>

\* the controller synthesizes the configuration of the admitted resources
SyncConfiguration ==
    /\ pc = "idle"
    /\ mode' = "sync"
    /\ pass' = "full"
    /\ mcis' = store
    /\ pc' = "upstreams"
    /\ UNCHANGED checkErr
    /\ unchangedInput /\ unchangedPass /\ unchangedMetrics

\* CheckMCI without the tests of the deletion marker and of the namespace
CheckMCIWithoutNoOpChecks ==
    /\ pc = "idle"
    /\ mode' = "check"
    /\ pass' = "full"
    /\ IF cand = <<>>
       THEN /\ checkErr' = NoError
            /\ pc' = "returned"
            /\ UNCHANGED mcis
       ELSE IF cfg.DisableCatchAll /\ ~cand[1].DefaultBackend.Nil
       THEN /\ checkErr' = PolicyError("catch-all")
            /\ pc' = "returned"
            /\ UNCHANGED mcis
       ELSE IF annotationErrors(cand[1]) # {}
       THEN /\ \E e \in annotationErrors(cand[1]) : checkErr' = PolicyError(e)
            /\ pc' = "returned"
            /\ UNCHANGED mcis
       ELSE /\ mcis' = Append(FilterMultiClusterIngress(store, cand[1]),
                              SetDefaultNGINXPathType(cand[1]))
            /\ pc' = "upstreams"
            /\ UNCHANGED checkErr
    /\ unchangedInput /\ unchangedPass /\ unchangedMetrics

\* CheckMCI, lines 1019-1088: no-op checks, policy checks, candidate set
CheckMCI ==
    /\ pc = "idle"
    /\ mode' = "check"
    /\ pass' = "full"
    /\ IF \/ cand = <<>>
          \/ cand[1].Deleted
          \/ (cfg.Namespace # "" /\ cand[1].Namespace # cfg.Namespace)
       THEN /\ checkErr' = NoError
            /\ pc' = "returned"
            /\ UNCHANGED mcis
       ELSE IF cfg.DisableCatchAll /\ ~cand[1].DefaultBackend.Nil
       THEN /\ checkErr' = PolicyError("catch-all")
            /\ pc' = "returned"
            /\ UNCHANGED mcis
       ELSE IF annotationErrors(cand[1]) # {}
       THEN /\ \E e \in annotationErrors(cand[1]) : checkErr' = PolicyError(e)
            /\ pc' = "returned"
            /\ UNCHANGED mcis
       ELSE /\ mcis' = Append(FilterMultiClusterIngress(store, cand[1]),
                              SetDefaultNGINXPathType(cand[1]))
            /\ pc' = "upstreams"
            /\ UNCHANGED checkErr
    /\ unchangedInput /\ unchangedPass /\ unchangedMetrics

CreateUpstreams ==
    /\ pc = "upstreams"
    /\ upstreams' = createUpstreamsFromMCIs(mcis, endpoints)
    /\ pc' = "servers"
    /\ calls' = Append(calls, "synth")
    /\ UNCHANGED <<mode, pass, mcis, servers, canaryMCIs, aUpstreams, aServers,
                   pcfgServers, checkErr, errorCount, checkCount>>
    /\ unchangedInput

CreateServers ==
    /\ pc = "servers"
    /\ servers' = createServersFromMCIs(mcis, upstreams)
    /\ pc' = "wire"
    /\ UNCHANGED <<mode, pass, mcis, upstreams, canaryMCIs, aUpstreams, aServers,
                   pcfgServers, checkErr>>
    /\ unchangedInput /\ unchangedMetrics

WireLocations ==
    /\ pc = "wire"
    /\ LET w == wireMCIs([ups |-> upstreams, srv |-> servers], mcis, 1)
       IN  /\ upstreams' = w.ups
           /\ servers' = w.srv
    /\ canaryMCIs' = canaryIndexes(mcis)
    /\ pc' = "merge"
    /\ UNCHANGED <<mode, pass, mcis, aUpstreams, aServers, pcfgServers, checkErr>>
    /\ unchangedInput /\ unchangedMetrics

\* lines 286-290; a nil dereference ends the process
MergeCanaries ==
    /\ pc = "merge"
    /\ LET m == mergeAll(upstreams, mcis, canaryMCIs, servers)
       IN  /\ upstreams' = m.ups
           /\ pc' = IF m.panicked THEN "panic" ELSE "assemble"
    /\ UNCHANGED <<mode, pass, mcis, servers, canaryMCIs, aUpstreams, aServers,
                   pcfgServers, checkErr>>
    /\ unchangedInput /\ unchangedMetrics

\* lines 292-373 and getConfigurationFromMCI; servers and upstreams keep the
\* maps as the merge left them
Assemble ==
    /\ pc = "assemble"
    /\ \E order \in upstreamOrders(upstreams, servers, endpoints) :
           LET a == customUpstreams([srv |-> servers, out |-> <<>>],
                                  upstreams, order, endpoints)
           IN  /\ aUpstreams' = assembleUpstreams(a.out)
               /\ aServers' = assembleServers(a.srv)
               /\ pcfgServers' = configurationServers(aServers')
    /\ pc' = IF mode = "sync" THEN "done"
             ELSE IF pass = "full" THEN "overlap" ELSE "render"
    /\ UNCHANGED <<mode, pass, mcis, upstreams, servers, canaryMCIs, checkErr>>
    /\ unchangedInput /\ unchangedMetrics

\* CheckOverlap that goes to the reduced pass without the overlap check when
\* full validation is disabled
CheckOverlapSkippedWhenReduced ==
    /\ pc = "overlap"
    /\ LET err == IF cfg.DisableFullValidationTest THEN NoError
                  ELSE checkOverlapWithMCI(cand[1], pcfgServers, mcis)
       IN  IF err # NoError
           THEN /\ checkErr' = err
                /\ errorCount' = errorCount + 1
                /\ pc' = "returned"
                /\ UNCHANGED <<pass, mcis>>
           ELSE IF cfg.DisableFullValidationTest
           THEN /\ mcis' = <<mcis[Len(mcis)]>>
                /\ pass' = "reduced"
                /\ pc' = "upstreams"
                /\ UNCHANGED <<checkErr, errorCount>>
           ELSE /\ pc' = "render"
                /\ UNCHANGED <<pass, mcis, checkErr, errorCount>>
    /\ UNCHANGED <<mode, checkCount, calls>>
    /\ unchangedInput /\ unchangedPass

\* lines 1091-1100: the overlap check on the servers of the full pass, then
\* the reduced pass over the candidate alone when full validation is disabled
CheckOverlap ==
    /\ pc = "overlap"
    /\ LET err == checkOverlapWithMCI(cand[1], pcfgServers, mcis)
       IN  IF err # NoError
           THEN /\ checkErr' = err
                /\ errorCount' = errorCount + 1
                /\ pc' = "returned"
                /\ UNCHANGED <<pass, mcis>>
           ELSE IF cfg.DisableFullValidationTest
           THEN /\ mcis' = <<mcis[Len(mcis)]>>
                /\ pass' = "reduced"
                /\ pc' = "upstreams"
                /\ UNCHANGED <<checkErr, errorCount>>
           ELSE /\ pc' = "render"
                /\ UNCHANGED <<pass, mcis, checkErr, errorCount>>
    /\ UNCHANGED <<mode, checkCount, calls>>
    /\ unchangedInput /\ unchangedPass

\* GenerateTemplate going on to the syntax check after a render error
GenerateTemplateIgnoresError ==
    /\ pc = "render"
    /\ \E ok \in BOOLEAN :
          /\ pc' = "test"
          /\ calls' = Append(calls, IF ok THEN "render:ok" ELSE "render:err")
          /\ UNCHANGED <<checkErr, errorCount>>
    /\ UNCHANGED <<mode, pass, mcis, checkCount>>
    /\ unchangedInput /\ unchangedPass

\* lines 1102-1106: n.generateTemplate succeeds or fails
GenerateTemplate ==
    /\ pc = "render"
    /\ \E ok \in BOOLEAN :
          IF ok
          THEN /\ pc' = "test"
               /\ calls' = Append(calls, "render:ok")
               /\ UNCHANGED <<checkErr, errorCount>>
          ELSE /\ checkErr' = PolicyError("render")
               /\ errorCount' = errorCount + 1
               /\ calls' = Append(calls, "render:err")
               /\ pc' = "returned"
    /\ UNCHANGED <<mode, pass, mcis, checkCount>>
    /\ unchangedInput /\ unchangedPass

\* lines 1108-1123: n.testTemplate succeeds or fails
TestTemplate ==
    /\ pc = "test"
    /\ \E ok \in BOOLEAN :
          IF ok
          THEN /\ checkErr' = NoError
               /\ checkCount' = checkCount + 1
               /\ calls' = Append(calls, "test:ok")
               /\ UNCHANGED errorCount
          ELSE /\ checkErr' = PolicyError("syntax")
               /\ errorCount' = errorCount + 1
               /\ calls' = Append(calls, "test:err")
               /\ UNCHANGED checkCount
    /\ pc' = "returned"
    /\ UNCHANGED <<mode, pass, mcis>>
    /\ unchangedInput /\ unchangedPass

Next ==
    \/ SyncConfiguration
    \/ CheckMCI
    \/ CreateUpstreams
    \/ CreateServers
    \/ WireLocations
    \/ MergeCanaries
    \/ Assemble
    \/ CheckOverlap
    \/ GenerateTemplate
    \/ TestTemplate

------------------------------------------------------------------------------
\* Inputs: the resources, settings and resolver outcomes a run starts from

MaxStore == 1

MaxPaths == 1

SeqsUpTo(S, n) == UNION {[1..k -> S] : k \in 0..n}

Svc(n) == [Name |-> n, Port |-> "80"]

NoBackend == [Nil |-> TRUE, Service |-> NilService]

ServiceBackend(n) == [Nil |-> FALSE, Service |-> Svc(n)]

Annotation(name, value) ==
    IF value = "" THEN {}
    ELSE {[Prefix |-> DefaultAnnotationsPrefix, Name |-> name, Value |-> value]}

MCI(name, canary, defaultBackend, rules) ==
    [Namespace |-> "ns1",
     Name |-> name,
     Deleted |-> FALSE,
     Annotations |-> Annotation("canary", canary),
     DefaultBackend |-> defaultBackend,
     TLS |-> <<>>,
     Rules |-> rules]

PathsOf(paths, types, services) ==
    {[Path |-> p, PathType |-> t, Service |-> Svc(s)] :
        p \in paths, t \in types, s \in services}

\* a rule without an HTTP section, or with at most n paths
RulesOf(hosts, entries, n) ==
    {[Host |-> h, HTTP |-> FALSE, Paths |-> <<>>] : h \in hosts}
    \cup {[Host |-> h, HTTP |-> TRUE, Paths |-> ps] :
             h \in hosts, ps \in SeqsUpTo(entries, n)}

\* resources with no rule or one rule
MCIsOf(names, canaries, backends, rules) ==
    {MCI(nm, c, d, rs) : nm \in names, c \in canaries, d \in backends,
                         rs \in {<<>>} \cup {<<r>> : r \in rules}}

StoreNames == <<"foo", "bar", "baz">>

\* the store holds one resource per name
StoresOf(U, n) ==
    UNION {{[i \in 1..k |-> [q[i] EXCEPT !.Name = StoreNames[i]]] : q \in [1..k -> U]} :
              k \in 0..n}

DefaultCfg ==
    [Namespace |-> "",
     DisableCatchAll |-> FALSE,
     DisableFullValidationTest |-> FALSE,
     AnnotationsPrefix |-> DefaultAnnotationsPrefix,
     AnnotationValueWordBlocklist |-> {},
     AllowSnippetAnnotations |-> FALSE,
     GlobalRateLimitMemcachedHost |-> ""]

\* no secret can be loaded
NoSecrets == [n \in SecretNames |-> MissingSecret]

InitWith(StoreU, CandU, CfgU, EndpointU) ==
    /\ store \in StoresOf(StoreU, MaxStore)
    /\ cand \in {<<>>} \cup {<<c>> : c \in CandU}
    /\ cfg \in CfgU
    /\ endpoints \in [Services -> EndpointU]
    /\ secrets = NoSecrets
    /\ mode = "idle"
    /\ pc = "idle"
    /\ pass = "full"
    /\ mcis = <<>>
    /\ upstreams = EmptyMap
    /\ servers = EmptyMap
    /\ canaryMCIs = <<>>
    /\ aUpstreams = <<>>
    /\ aServers = <<>>
    /\ pcfgServers = <<>>
    /\ checkErr = NoError
    /\ errorCount = 0
    /\ checkCount = 0
    /\ calls = <<>>

\* canary and plain resources on one host, with and without a default backend
MainRules == RulesOf({"a.com"}, PathsOf({rootLocation}, {"Prefix"}, {"s1", "s2"}), MaxPaths)

MainMCIs(names) ==
    MCIsOf(names, {"", "true"}, {NoBackend, ServiceBackend("s1")}, MainRules)

Init ==
    InitWith(MainMCIs({"foo"}), MainMCIs({"foo", "new"}),
             {DefaultCfg},
             {"ok"})

Spec == Init /\ [][Next]_vars

\* the most paths of the rule of a candidate
MaxCandPaths == 2

\* plain resources on one host whose paths differ in length, in byte order
\* and, at "/", in path type from the placeholder location
OrderPaths ==
    PathsOf({rootLocation}, {"Exact"}, {"s1"})
    \cup PathsOf({<<47, 97>>, <<47, 98>>, <<47, 97, 98>>}, {"Prefix"}, {"s1"})

OrderMCIs(names, n) ==
    MCIsOf(names, {""}, {NoBackend}, RulesOf({"a.com"}, OrderPaths, n))

InitOrder ==
    InitWith(OrderMCIs({"foo"}, MaxPaths), OrderMCIs({"new"}, MaxCandPaths),
             {DefaultCfg}, {"ok"})

SpecOrder == InitOrder /\ [][Next]_vars

\* admission: admitted resources with one path each, and a candidate with up
\* to MaxCandPaths paths; every value of the canary annotation on both sides
AdmissionPaths ==
    PathsOf({<<47, 97>>}, {"Prefix"}, {"s1", "s2"})
    \cup PathsOf({<<47, 98>>}, {"Prefix"}, {"s1"})

AdmittedMCIs ==
    {MCI("foo", c, NoBackend, <<[Host |-> "a.com", HTTP |-> TRUE, Paths |-> <<e>>]>>) :
        c \in {"", "true", "false"}, e \in AdmissionPaths}

CandidateMCIs ==
    MCIsOf({"foo", "new"}, {"", "true", "false"}, {NoBackend},
           RulesOf({"a.com"}, AdmissionPaths, MaxCandPaths))

InitAdmission ==
    InitWith(AdmittedMCIs, CandidateMCIs,
             {DefaultCfg, [DefaultCfg EXCEPT !.DisableFullValidationTest = TRUE]},
             {"ok"})

SpecAdmission == InitAdmission /\ [][Next]_vars

\* the most entries of the TLS section of a resource
MaxTLS == 1

\* TLS sections that name the host in another case, or another host, with and
\* without a secret name
TLSEntries ==
    {[Hosts |-> <<h>>, SecretName |-> n] : h \in {"A.COM", "b.com"}, n \in {"", "cert1"}}

\* one rule on a.com, with the TLS sections
TLSMCIs(names, canaries) ==
    {[m EXCEPT !.TLS = t] :
        m \in MCIsOf(names, canaries, {NoBackend},
                     {[Host |-> "a.com", HTTP |-> TRUE,
                       Paths |-> <<[Path |-> rootLocation, PathType |-> "Prefix",
                                    Service |-> Svc("s1")]>>]}),
        t \in SeqsUpTo(TLSEntries, MaxTLS)}

\* what the lookup of a secret can give: an error, a secret without a
\* certificate, and certificates for a.com (by SAN, by CN only) and for b.com
SecretOutcomes ==
    {MissingSecret,
     [Err |-> FALSE, Certificate |-> FALSE, SAN |-> {}, CN |-> {}],
     [Err |-> FALSE, Certificate |-> TRUE, SAN |-> {"a.com"}, CN |-> {"a.com"}],
     [Err |-> FALSE, Certificate |-> TRUE, SAN |-> {}, CN |-> {"a.com"}],
     [Err |-> FALSE, Certificate |-> TRUE, SAN |-> {"b.com"}, CN |-> {"b.com"}]}

InitSecrets(StoreU, CandU) ==
    /\ store \in StoresOf(StoreU, MaxStore)
    /\ cand \in {<<>>} \cup {<<c>> : c \in CandU}
    /\ cfg = DefaultCfg
    /\ endpoints = [n \in Services |-> "ok"]
    /\ secrets \in [SecretNames -> SecretOutcomes]
    /\ mode = "idle"
    /\ pc = "idle"
    /\ pass = "full"
    /\ mcis = <<>>
    /\ upstreams = EmptyMap
    /\ servers = EmptyMap
    /\ canaryMCIs = <<>>
    /\ aUpstreams = <<>>
    /\ aServers = <<>>
    /\ pcfgServers = <<>>
    /\ checkErr = NoError
    /\ errorCount = 0
    /\ checkCount = 0
    /\ calls = <<>>

InitTLS ==
    InitSecrets(TLSMCIs({"foo"}, {""}),
                {[c EXCEPT !.TLS = <<>>] : c \in TLSMCIs({"new"}, {"", "true"})})

SpecTLS == InitTLS /\ [][Next]_vars

\* two resources on a.com: the admitted one with any TLS section, the
\* candidate with none, one that names no secret, or one that names cert1
InitCertificate ==
    InitSecrets(TLSMCIs({"foo"}, {""}),
                {[c EXCEPT !.TLS = t] :
                    c \in TLSMCIs({"new"}, {""}),
                    t \in {<<>>, <<[Hosts |-> <<"A.COM">>, SecretName |-> ""]>>,
                           <<[Hosts |-> <<"A.COM">>, SecretName |-> "cert1"]>>}})

SpecCertificate == InitCertificate /\ [][Next]_vars

\* admission policy: the settings one at a time, and candidates with and
\* without a deletion marker, a default backend and one annotation
PolicyCfgs ==
    {DefaultCfg,
     [DefaultCfg EXCEPT !.Namespace = "ns2"],
     [DefaultCfg EXCEPT !.DisableCatchAll = TRUE],
     [DefaultCfg EXCEPT !.DisableFullValidationTest = TRUE],
     [DefaultCfg EXCEPT !.AnnotationsPrefix = "custom.io"],
     [DefaultCfg EXCEPT !.AnnotationValueWordBlocklist = {"load_module"}]}

PolicyAnnotations ==
    {{}, {[Prefix |-> DefaultAnnotationsPrefix, Name |-> "load-balance",
           Value |-> "load_module x"]},
         {[Prefix |-> "example.com", Name |-> "note", Value |-> "load_module x"]},
         {[Prefix |-> DefaultAnnotationsPrefix, Name |-> "server-snippet",
           Value |-> "x"]},
         {[Prefix |-> DefaultAnnotationsPrefix, Name |-> "global-rate-limit",
           Value |-> "x"]}}

PolicyMCIs(names, deleted, backends, annotations) ==
    {[m EXCEPT !.Deleted = d, !.Annotations = a] :
        m \in MCIsOf(names, {""}, backends, MainRules),
        d \in deleted, a \in annotations}

InitPolicy ==
    InitWith(PolicyMCIs({"foo"}, {FALSE}, {NoBackend}, {{}}),
             PolicyMCIs({"new"}, BOOLEAN, {NoBackend, ServiceBackend("s1")},
                        PolicyAnnotations),
             PolicyCfgs, {"ok"})

SpecPolicy == InitPolicy /\ [][Next]_vars

\* one plain resource with up to MaxCandPaths paths, and a candidate, canary
\* or plain, with up to MaxPaths paths on the same host and services
InitSelfReference ==
    InitWith(MCIsOf({"foo"}, {""}, {NoBackend},
                    RulesOf({"a.com"}, AdmissionPaths, MaxCandPaths)),
             MCIsOf({"new"}, {"", "true"}, {NoBackend},
                    RulesOf({"a.com"}, AdmissionPaths, MaxPaths)),
             {DefaultCfg}, {"ok"})

SpecSelfReference == InitSelfReference /\ [][Next]_vars

\* resources with a custom default backend: the annotation names a service
\* with a port (s3), one without (s4) or none of the store (gone); the
\* services s1 and s3 are with and without endpoints
CustomAnnotations ==
    {{}, Annotation("default-backend", "s3"),
     Annotation("default-backend", "s3") \cup Annotation("custom-http-errors", "404"),
     Annotation("default-backend", "s3") \cup Annotation("rewrite-target", "/x"),
     Annotation("default-backend", "s4"),
     Annotation("default-backend", "gone")}

CandidateAnnotations ==
    {{}, Annotation("canary", "true"),
     Annotation("default-backend", "s3") \cup Annotation("custom-http-errors", "404")}

\* with and without a default backend, with no rule or one path on a.com
CustomMCIs(names, annotations) ==
    {[MCI(nm, "", d, rs) EXCEPT !.Annotations = a] :
        nm \in names, d \in {NoBackend, ServiceBackend("s1")},
        rs \in {<<>>, <<[Host |-> "a.com", HTTP |-> FALSE, Paths |-> <<>>]>>,
                <<[Host |-> "a.com", HTTP |-> TRUE,
                   Paths |-> <<[Path |-> rootLocation, PathType |-> "Prefix",
                                Service |-> Svc("s2")]>>]>>},
        a \in annotations}

InitCustom ==
    /\ InitWith(CustomMCIs({"foo"}, CustomAnnotations),
                CustomMCIs({"new"}, CandidateAnnotations),
                {DefaultCfg}, {"ok", "err"})
    /\ endpoints["s2"] = "ok"
    /\ endpoints["s4"] = "ok"

SpecCustom == InitCustom /\ [][Next]_vars

\* resources on the hosts a.com and b.com whose aliases name the own host,
\* the other host, and one name twice
AliasMCIs(names, canaries) ==
    {[MCI(nm, "", NoBackend,
          <<[Host |-> h, HTTP |-> TRUE,
             Paths |-> <<[Path |-> rootLocation, PathType |-> "Prefix",
                          Service |-> Svc("s1")]>>]>>)
         EXCEPT !.Annotations = Annotation("canary", c) \cup Annotation("server-alias", a)] :
        nm \in names, c \in canaries, h \in {"a.com", "b.com"},
        a \in {"", "c.com", "d.com,b.com,a.com,c.com,d.com"}}

InitAlias ==
    InitWith(AliasMCIs({"foo"}, {""}), AliasMCIs({"new"}, {"", "true"}),
             {DefaultCfg}, {"ok"})

SpecAlias == InitAlias /\ [][Next]_vars

\* resources that route paths of a.com to s1, with and without cookie
\* affinity, under two cookie names
AffinityMCIs(names) ==
    {[MCI(nm, "", NoBackend,
          <<[Host |-> "a.com", HTTP |-> TRUE,
             Paths |-> <<[Path |-> p, PathType |-> "Prefix",
                          Service |-> Svc("s1")]>>]>>)
         EXCEPT !.Annotations = Annotation("affinity", t)
                                    \cup Annotation("session-cookie-name", n)] :
        nm \in names, p \in {<<47, 97>>, <<47, 98>>}, t \in {"", "cookie"},
        n \in {"A", "B"}}

InitAffinity ==
    InitWith(AffinityMCIs({"foo"}), AffinityMCIs({"new"}), {DefaultCfg}, {"ok"})

SpecAffinity == InitAffinity /\ [][Next]_vars

\* resources that ask for service-upstream or not, with s1 as default
\* backend or behind a path; the resolver has endpoints and a cluster address
\* for s1, only endpoints, or neither
ServiceUpstreamMCIs(names) ==
    {[m EXCEPT !.Annotations = Annotation("service-upstream", u)] :
        m \in MCIsOf(names, {""}, {NoBackend, ServiceBackend("s1")},
                     RulesOf({"a.com"},
                             PathsOf({rootLocation}, {"Prefix"}, {"s1"}), MaxPaths)),
        u \in {"", "true"}}

InitServiceUpstream ==
    /\ InitWith(ServiceUpstreamMCIs({"foo"}), ServiceUpstreamMCIs({"new"}),
                {DefaultCfg}, {"ok", "err", "noclusterip"})
    /\ \A n \in Services \ {"s1"} : endpoints[n] = "ok"

SpecServiceUpstream == InitServiceUpstream /\ [][Next]_vars

\* canary and plain resources with a weight and a weight total, with s1 as
\* default backend and s2 behind a path
CanaryPolicyMCIs(names) ==
    {[m EXCEPT !.Annotations = Annotation("canary", c)
                                   \cup Annotation("canary-weight", w)
                                   \cup Annotation("canary-weight-total", t)] :
        m \in MCIsOf(names, {""}, {NoBackend, ServiceBackend("s1")},
                     RulesOf({"a.com"},
                             PathsOf({rootLocation}, {"Prefix"}, {"s2"}), MaxPaths)),
        c \in {"", "true"}, w \in {"", "10"}, t \in {"", "50"}}

InitCanaryPolicy ==
    InitWith(CanaryPolicyMCIs({"foo"}), CanaryPolicyMCIs({"new"}),
             {DefaultCfg}, {"ok"})

SpecCanaryPolicy == InitCanaryPolicy /\ [][Next]_vars

\* a candidate that is new or a later version of an admitted resource, with
\* full validation enabled and disabled
ReducedMCIs(names) == MCIsOf(names, {"", "true"}, {NoBackend}, MainRules)

InitReduced ==
    InitWith(ReducedMCIs({"foo"}), ReducedMCIs({"foo", "new"}),
             {DefaultCfg, [DefaultCfg EXCEPT !.DisableFullValidationTest = TRUE]},
             {"ok"})

SpecReduced == InitReduced /\ [][Next]_vars

\* canary and non-canary resources on one host that share the services
\* behind their paths and their default backends; a path has the type Prefix
\* or no type (admitted resources are not defaulted)
SharedMCIs(names) ==
    MCIsOf(names, {"", "true"}, {NoBackend, ServiceBackend("s1")},
           RulesOf({"a.com"},
                   PathsOf({rootLocation, <<47, 97>>}, {"Prefix", ""}, {"s1", "s2"}),
                   MaxPaths))

InitShared ==
    InitWith(SharedMCIs({"foo"}), SharedMCIs({"new"}), {DefaultCfg}, {"ok"})

SpecShared == InitShared /\ [][Next]_vars

------------------------------------------------------------------------------
\* Properties

\* a pass has returned and mcis is the list it synthesized
PassDone ==
    \/ pc \in {"done", "overlap", "render", "test"}
    \/ pc = "returned" /\ aUpstreams # <<>>

Occurrences(list, x) == Cardinality({k \in 1..Len(list) : list[k] = x})

\* the (namespace, service) pairs the resources of list refer to, through a
\* default backend or through a path of a rule
referencedServices(list) ==
    {<<list[i].Namespace, list[i].DefaultBackend.Service>> :
        i \in {j \in 1..Len(list) : /\ ~list[j].DefaultBackend.Nil
                                    /\ list[j].DefaultBackend.Service # NilService}}
    \cup UNION {UNION {{<<list[i].Namespace, list[i].Rules[r].Paths[k].Service>> :
                          k \in {q \in 1..Len(list[i].Rules[r].Paths) :
                                    list[i].Rules[r].Paths[q].Service # NilService}} :
                      r \in 1..Len(list[i].Rules)} :
               i \in 1..Len(list)}

\* C5: after a pass, a backend flagged NoServer (created for a canary
\* resource) that is in the returned backend list is named in the
\* AlternativeBackends of some returned backend: an unmerged one is absent.
C5_UnmergedCanaryAbsent ==
    PassDone =>
        \A k \in 1..Len(aUpstreams) :
            aUpstreams[k].NoServer =>
                \E j \in 1..Len(aUpstreams) :
                    aUpstreams[k].Name \in SeqToSet(aUpstreams[j].AlternativeBackends)

\* C6: wherever a merge of alt into pri succeeds, merging the same pair again
\* succeeds and changes no backend, and pri lists alt exactly once.
C6_MergeIdempotent ==
    pc \in {"merge", "assemble"} =>
        \A c \in 1..Len(canaryMCIs) :
            \A pri \in DOMAIN upstreams : \A alt \in (DOMAIN upstreams) \ {pri} :
                LET once == mergeAlternativeBackendByMCI(upstreams, mcis[canaryMCIs[c]],
                                                         pri, alt)
                    twice == mergeAlternativeBackendByMCI(once.ups, mcis[canaryMCIs[c]],
                                                          pri, alt)
                IN  once.ok =>
                        /\ twice.ok
                        /\ twice.ups = once.ups
                        /\ Occurrences(once.ups[pri].AlternativeBackends, alt) = 1

\* C6 witness: the merger has merged an alternative backend into a primary,
\* so that merging that pair again is the second application.
C6_Witness ==
    /\ pc = "assemble"
    /\ \E pri \in DOMAIN upstreams : upstreams[pri].AlternativeBackends # <<>>

\* C8: the map createUpstreamsFromMCIs returns has the reserved default key
\* and one key per (namespace, service, port) the resources refer to, each
\* holding the backend of that name, and nothing else.
C8_OneUpstreamPerService ==
    pc = "servers" =>
        /\ DOMAIN upstreams =
               {defUpstreamName}
               \cup {upstreamName(t[1], t[2]) : t \in referencedServices(mcis)}
        /\ Cardinality(DOMAIN upstreams) = Cardinality(referencedServices(mcis)) + 1
        /\ \A k \in DOMAIN upstreams : upstreams[k].Name = k

\* C8 witness: two resources, a service referred to by both of them and
\* another service referred to through a default backend.
C8_Witness ==
    /\ pc = "servers"
    /\ Len(mcis) = 2
    /\ referencedServices(<<mcis[1]>>) \cap referencedServices(<<mcis[2]>>) # {}
    /\ \E i \in 1..2 : ~mcis[i].DefaultBackend.Nil
    /\ Cardinality(DOMAIN upstreams) = 3

\* the fields of a backend that C9 names
populated(b) ==
    <<b.Endpoints, b.NoServer, b.LoadBalancing, b.TrafficShapingPolicy>>

\* C9: a backend that exists once the first i resources are processed is the
\* same (endpoints, NoServer, load balancing, traffic shaping) in the map
\* built from the whole list.
C9_FirstWriterWins ==
    pc = "servers" =>
        \A i \in 1..Len(mcis) :
            LET first == createUpstreamsFromMCIs(SubSeq(mcis, 1, i), endpoints)
            IN  \A k \in DOMAIN first : populated(upstreams[k]) = populated(first[k])

\* C10: a pass never ends in a nil dereference.
C10_NoFatalPath == pc # "panic"

\* C1: no server of a returned configuration has two locations with the
\* same path and path type.
C1_UniqueLocations ==
    PassDone =>
        \A s \in 1..Len(aServers) :
            \A i, j \in 1..Len(aServers[s].Locations) :
                i # j =>
                    \/ aServers[s].Locations[i].Path # aServers[s].Locations[j].Path
                    \/ aServers[s].Locations[i].PathType
                           # aServers[s].Locations[j].PathType

\* C7: in the final configuration the locations of every server are strictly
\* ordered by path length descending, then path descending.
C7_StrictlyOrdered ==
    PassDone =>
        \A s \in 1..Len(pcfgServers) :
            LET locs == pcfgServers[s].Locations
            IN  \A i, j \in 1..Len(locs) :
                    i < j =>
                        \/ Len(locs[i].Path) > Len(locs[j].Path)
                        \/ /\ Len(locs[i].Path) = Len(locs[j].Path)
                           /\ StrLess(locs[j].Path, locs[i].Path)

\* the check has passed the overlap check of the full pass
OverlapPassed == mode = "check" /\ pass = "full" /\ pc = "render"

isCanary(mci) == annotationValue(mci, "canary") = "true"

hasCanaryAnnotation(mci) == annotationValue(mci, "canary") # ""

\* the resources other than mci that own a location at the pair hp
foreignOwners(mci, hp) ==
    {o \in SeqToSet(mciForHostPath(hp.host, hp.path, pcfgServers)) :
        ~sameMCI(mcis[o], mci)}

\* C2: a candidate that passed the overlap check has no rule/path at which
\* another resource owns the location while neither carries a canary
\* annotation.
C2_EveryPathChecked ==
    OverlapPassed =>
        \A k \in 1..Len(hostPaths(cand[1])) :
            \A o \in foreignOwners(cand[1], hostPaths(cand[1])[k]) :
                hasCanaryAnnotation(cand[1]) \/ hasCanaryAnnotation(mcis[o])

\* CheckMCI has returned from the full pass, before any reduced pass
ReturnedFromFull == mode = "check" /\ pass = "full" /\ pc = "returned" /\ mcis # <<>>

\* C3: a canary candidate, one of whose rule/paths is a location of another
\* resource and none of whose rule/paths is a location of a canary resource,
\* is not rejected with a conflict: CheckMCI returns nil unless rendering or
\* the syntax check fails.
C3_CanaryCandidateAccepted ==
    (/\ ReturnedFromFull
     /\ isCanary(cand[1])
     /\ \E k \in 1..Len(hostPaths(cand[1])) :
            foreignOwners(cand[1], hostPaths(cand[1])[k]) # {}
     /\ \A k \in 1..Len(hostPaths(cand[1])) :
            \A o \in foreignOwners(cand[1], hostPaths(cand[1])[k]) : ~isCanary(mcis[o]))
    => checkErr.kind \in {"", "render", "syntax"}

\* C3 witness: a canary candidate on the host and path of a resource that is
\* not canary has been accepted.
C3_Witness ==
    /\ ReturnedFromFull
    /\ isCanary(cand[1])
    /\ \E k \in 1..Len(hostPaths(cand[1])) :
           \E o \in foreignOwners(cand[1], hostPaths(cand[1])[k]) : ~isCanary(mcis[o])
    /\ checkErr = NoError
    /\ checkCount = 1

\* the first rule/path of mci at which a location exists: the one the
\* overlap check decides on (0 when there is none)
decidingPair(mci) ==
    LET hit == {k \in 1..Len(hostPaths(mci)) :
                   mciForHostPath(hostPaths(mci)[k].host, hostPaths(mci)[k].path,
                                  pcfgServers) # <<>>}
    IN  IF hit = {} THEN 0 ELSE FirstOf(hit)

\* C4: when the rule/path the overlap check decides on is a location of
\* other resources only, the candidate passes only if exactly one of the
\* candidate and each such resource is marked canary.
C4_ExactlyOneCanary ==
    (/\ OverlapPassed
     /\ decidingPair(cand[1]) # 0)
    => LET hp == hostPaths(cand[1])[decidingPair(cand[1])]
           owners == SeqToSet(mciForHostPath(hp.host, hp.path, pcfgServers))
       IN  (\A o \in owners : ~sameMCI(mcis[o], cand[1]))
               => \A o \in owners : isCanary(cand[1]) # isCanary(mcis[o])

\* the servers are those createServersFromMCIs built from mcis
ServersBuilt == pc \in {"wire", "merge", "assemble", "done", "overlap", "render", "test"}

\* the resource that decides the certificate of the server of host h: the
\* first one in the list that is not canary, has a TLS section and a rule on h
\* (0 when there is none)
tlsResource(h) ==
    LET with == {i \in 1..Len(mcis) :
                    /\ ~isCanary(mcis[i])
                    /\ Len(mcis[i].TLS) > 0
                    /\ \E r \in 1..Len(mcis[i].Rules) : ruleHost(mcis[i].Rules[r]) = h}
    IN  IF with = {} THEN 0 ELSE FirstOf(with)

\* the secret named name loads, holds a certificate and validates host h by
\* its subject alternative names or by its Common Name
secretValidFor(name, h) ==
    /\ name # ""
    /\ ~secrets[name].Err
    /\ secrets[name].Certificate
    /\ (h \in secrets[name].SAN \/ h \in secrets[name].CN)

\* C11: the pass never fails on TLS resolution; a server whose certificate a
\* resource with a TLS section decides has the certificate of a secret of that
\* section only if the secret loads, holds a certificate and validates the
\* host, and has the cluster default certificate otherwise: when the section
\* names no secret for the host, or the secret it names fails a step.
C11_TLSFallsBackToDefault ==
    /\ pc # "panic"
    /\ ServersBuilt =>
           \A h \in (DOMAIN servers) \ {defServerName} :
               tlsResource(h) # 0 =>
                   LET mci == mcis[tlsResource(h)]
                       named == {mci.TLS[k].SecretName : k \in 1..Len(mci.TLS)}
                       listed == {k \in 1..Len(mci.TLS) :
                                     \E q \in 1..Len(mci.TLS[k].Hosts) :
                                         toLowerCaseASCII(mci.TLS[k].Hosts[q]) = h}
                   IN  /\ servers[h].SSLCert # NilCert
                       /\ servers[h].SSLCert # getDefaultSSLCertificate =>
                              \E n \in named :
                                  /\ servers[h].SSLCert = SecretCert(mci.Namespace, n)
                                  /\ secretValidFor(n, h)
                       /\ (\A n \in named : ~secretValidFor(n, h)) =>
                              servers[h].SSLCert = getDefaultSSLCertificate
                       /\ (listed # {}
                           /\ ~secretValidFor(mci.TLS[FirstOf(listed)].SecretName, h)) =>
                              servers[h].SSLCert = getDefaultSSLCertificate

\* C11 witness: a server got the default certificate because the secret its
\* TLS section names for the host does not validate the host.
C11_Witness ==
    /\ ServersBuilt
    /\ \E h \in (DOMAIN servers) \ {defServerName} :
           /\ tlsResource(h) # 0
           /\ \E k \in 1..Len(mcis[tlsResource(h)].TLS) :
                  LET n == mcis[tlsResource(h)].TLS[k].SecretName
                  IN  /\ n # ""
                      /\ ~secrets[n].Err
                      /\ secrets[n].Certificate
                      /\ ~secretValidFor(n, h)
           /\ servers[h].SSLCert = getDefaultSSLCertificate

\* the no-op checks of CheckMCI accept the candidate
noOpCandidate ==
    \/ cand = <<>>
    \/ cand[1].Deleted
    \/ (cfg.Namespace # "" /\ cand[1].Namespace # cfg.Namespace)

\* the kinds of the policy rejections
PolicyKinds == {"catch-all", "prefix", "badword", "snippet", "global-rate-limit"}

\* C12: for a nil candidate, one with a deletion marker or one outside the
\* watched namespace, CheckMCI returns nil at once: nothing is synthesized,
\* rendered or syntax-checked and no metric is updated, whatever policy the
\* candidate violates.
C12_NoOpChecksAccept ==
    (mode = "check" /\ noOpCandidate) =>
        /\ pc = "returned"
        /\ checkErr = NoError
        /\ calls = <<>>
        /\ mcis = <<>>
        /\ errorCount = 0
        /\ checkCount = 0

\* C12 witness: a candidate with a deletion marker that declares a default
\* backend while catch-all is disabled has been accepted.
C12_Witness ==
    /\ mode = "check"
    /\ cand # <<>>
    /\ cand[1].Deleted
    /\ cfg.DisableCatchAll
    /\ ~cand[1].DefaultBackend.Nil
    /\ pc = "returned"
    /\ checkErr = NoError

\* C13: with a blocklist configured, a candidate that the no-op checks do not
\* accept and one of whose annotation values contains a forbidden word is
\* rejected by the policy checks, whatever the key of the annotation.
C13_ForbiddenWordRejected ==
    (/\ mode = "check"
     /\ ~noOpCandidate
     /\ \E a \in cand[1].Annotations :
            \E w \in cfg.AnnotationValueWordBlocklist : Contains(a.Value, w))
    => (pc = "returned" /\ checkErr.kind \in PolicyKinds)

\* C14: the stages of CheckMCI run in order and the first failure ends the
\* check: nothing is called after a policy rejection, only the synthesis
\* before an overlap conflict, no syntax check after a render error, and a
\* candidate the no-op checks did not accept is accepted only after the
\* synthesis, a successful render and a successful syntax check, in that
\* order.
C14_StagesInOrder ==
    mode = "check" =>
        /\ checkErr.kind \in PolicyKinds => calls = <<>>
        /\ checkErr.kind = "conflict" => calls = <<"synth">>
        /\ checkErr.kind = "render" =>
               /\ calls[Len(calls)] = "render:err"
               /\ \A k \in 1..(Len(calls) - 1) : calls[k] = "synth"
        /\ checkErr.kind # "" => pc = "returned"
        /\ (pc = "returned" /\ checkErr = NoError /\ ~noOpCandidate) =>
               /\ Len(calls) >= 3
               /\ calls[Len(calls)] = "test:ok"
               /\ calls[Len(calls) - 1] = "render:ok"
               /\ \A k \in 1..(Len(calls) - 2) : calls[k] = "synth"
        /\ \A k \in 1..Len(calls) :
               /\ calls[k] \in {"render:ok", "render:err"} =>
                      (k > 1 /\ calls[k - 1] = "synth")
               /\ calls[k] \in {"test:ok", "test:err"} =>
                      (k > 1 /\ calls[k - 1] = "render:ok")

\* C14 witness: a render error has ended a check that passed the policy
\* checks and the overlap check.
C14_Witness ==
    /\ mode = "check"
    /\ pc = "returned"
    /\ checkErr.kind = "render"
    /\ calls = <<"synth", "render:err">>

\* C15: once the servers are built and the locations wired, no location of
\* any server has for Backend a backend flagged NoServer.
C15_NoLocationOnNoServer ==
    pc \in {"wire", "merge"} =>
        \A h \in DOMAIN servers :
            \A k \in 1..Len(servers[h].Locations) :
                servers[h].Locations[k].Backend \in DOMAIN upstreams =>
                    ~upstreams[servers[h].Locations[k].Backend].NoServer

\* C16: in a returned configuration no location is owned by a canary
\* resource.
C16_CanaryOwnsNoLocation ==
    PassDone =>
        \A s \in 1..Len(aServers) :
            \A k \in 1..Len(aServers[s].Locations) :
                aServers[s].Locations[k].MultiClusterIngress # 0 =>
                    ~isCanary(mcis[aServers[s].Locations[k].MultiClusterIngress])

\* C17: after the merge, for every rule/path of a canary resource whose
\* server has a location on the alternative backend itself, the alternative
\* backend is still in the map and no backend lists it in AlternativeBackends.
C17_SelfReferencePreserved ==
    pc = "assemble" =>
        \A c \in 1..Len(canaryMCIs) :
            LET mci == mcis[canaryMCIs[c]]
            IN  \A r \in 1..Len(mci.Rules) : \A q \in 1..Len(mci.Rules[r].Paths) :
                    LET host == ruleHost(mci.Rules[r])
                        alt == upstreamName(mci.Namespace, mci.Rules[r].Paths[q].Service)
                    IN  (/\ mci.Rules[r].Paths[q].Service # NilService
                         /\ host \in DOMAIN servers
                         /\ \E k \in 1..Len(servers[host].Locations) :
                                servers[host].Locations[k].Backend = alt)
                        => /\ alt \in DOMAIN upstreams
                           /\ \A pri \in DOMAIN upstreams :
                                  alt \notin SeqToSet(upstreams[pri].AlternativeBackends)

\* the locations of server host in the assembled list
assembledLocations(host) ==
    aServers[CHOOSE x \in 1..Len(aServers) : aServers[x].Hostname = host].Locations

\* the assembler appended a custom default backend for the location
synthesizedFor(loc) ==
    /\ loc.Backend \in DOMAIN upstreams
    /\ loc.Backend # defUpstreamName
    /\ loc.DefaultBackend # <<>>
    /\ Len(upstreams[loc.Backend].Endpoints) = 0 \/ loc.CustomHTTPErrors # ""
    /\ ServicePorts(loc.DefaultBackend[2]) # <<>>
    /\ endpoints[loc.DefaultBackend[2]] = "ok"

\* the location as the claim leaves it
rewiredIfNoEndpoint(loc) ==
    IF ~synthesizedFor(loc) THEN loc
    ELSE LET name == <<"custom-default-backend">> \o loc.DefaultBackend
             named == [loc EXCEPT !.DefaultBackendUpstreamName = name]
         IN  IF upstreams[loc.Backend].Endpoints = <<>>
             THEN [named EXCEPT !.Backend = name]
             ELSE named

\* C18: when the assembler synthesizes a custom default backend for a
\* location, a backend of that name with the service's endpoints is in the
\* output list, and the location points at it if and only if the backend it
\* pointed at has no endpoint; otherwise its Backend is unchanged.
C18_RewiredIffNoEndpoint ==
    PassDone =>
        \A h \in DOMAIN servers : \A k \in 1..Len(servers[h].Locations) :
            LET loc == servers[h].Locations[k]
                want == [j \in 1..Len(servers[h].Locations) |->
                            rewiredIfNoEndpoint(servers[h].Locations[j])]
            IN  synthesizedFor(loc) =>
                    /\ \E j \in 1..Len(aUpstreams) :
                           /\ aUpstreams[j].Name =
                                  <<"custom-default-backend">> \o loc.DefaultBackend
                           /\ aUpstreams[j].Endpoints # <<>>
                    /\ Occurrences(assembledLocations(h), want[k])
                           = Occurrences(want, want[k])

\* a pass that rewired one location and synthesized for another one without
\* rewiring it
C18_Witness ==
    /\ PassDone
    /\ \E h \in DOMAIN servers : \E k \in 1..Len(servers[h].Locations) :
           /\ synthesizedFor(servers[h].Locations[k])
           /\ upstreams[servers[h].Locations[k].Backend].Endpoints = <<>>
           /\ \E j \in 1..Len(assembledLocations(h)) :
                  assembledLocations(h)[j].Backend[1] = "custom-default-backend"
    /\ \E h \in DOMAIN servers : \E k \in 1..Len(servers[h].Locations) :
           /\ synthesizedFor(servers[h].Locations[k])
           /\ upstreams[servers[h].Locations[k].Backend].Endpoints # <<>>
           /\ \E j \in 1..Len(assembledLocations(h)) :
                  assembledLocations(h)[j].Backend = servers[h].Locations[k].Backend

\* the root location of the catch-all server in the assembled list
catchAllRoot ==
    LET locs == assembledLocations(defServerName)
    IN  locs[FirstOf({k \in 1..Len(locs) : locs[k].Path = rootLocation})]

\* a resource that is not canary, has a default backend, no rule, and names a
\* custom default backend service that has a port and endpoints
customCatchAll(mci) ==
    /\ ~isCanary(mci)
    /\ ~mci.DefaultBackend.Nil /\ mci.DefaultBackend.Service # NilService
    /\ mci.Rules = <<>>
    /\ ParseByMCI(mci) # <<>>
    /\ ServicePorts(ParseByMCI(mci)[2]) # <<>>
    /\ endpoints[ParseByMCI(mci)[2]] = "ok"

\* C19 as stated: after a full pass over a non-canary resource with a default
\* backend, no rule and a custom default backend that has endpoints, the root
\* location of the catch-all server is on the synthesized custom default
\* backend and IsDefBackend is false.
C19_CatchAllOnCustomBackend ==
    PassDone =>
        \A i \in 1..Len(mcis) :
            customCatchAll(mcis[i]) =>
                /\ catchAllRoot.Backend
                       = <<"custom-default-backend">> \o ParseByMCI(mcis[i])
                /\ ~catchAllRoot.IsDefBackend

\* C19 amended: the same, for a resource that is the only one of the pass
\* with a default backend and whose default-backend service has no endpoint.
C19_CatchAllOnCustomBackendIfNoEndpoint ==
    PassDone =>
        \A i \in 1..Len(mcis) :
            (/\ customCatchAll(mcis[i])
             /\ endpoints[mcis[i].DefaultBackend.Service.Name] = "err"
             /\ \A j \in 1..Len(mcis) : j # i => mcis[j].DefaultBackend.Nil)
            => /\ catchAllRoot.Backend
                      = <<"custom-default-backend">> \o ParseByMCI(mcis[i])
               /\ ~catchAllRoot.IsDefBackend

C19_Witness ==
    /\ PassDone
    /\ \E i \in 1..Len(mcis) :
           /\ customCatchAll(mcis[i])
           /\ endpoints[mcis[i].DefaultBackend.Service.Name] = "err"
           /\ \A j \in 1..Len(mcis) : j # i => mcis[j].DefaultBackend.Nil
    /\ catchAllRoot.Backend[1] = "custom-default-backend"
    /\ catchAllRoot.MultiClusterIngress # 0

\* C20: after the Server Builder, the root location of the catch-all server
\* differs from the one it was created with only if some non-canary resource
\* has a default backend and no rule, and its redirect and rewrite fields are
\* the ones it was created with.
C20_CatchAllOverrideOnlyWithoutRules ==
    pc = "wire" =>
        LET root == servers[defServerName].Locations[1]
            created == defaultServer.Locations[1]
        IN  /\ root # created =>
                   \E i \in 1..Len(mcis) :
                       /\ ~isCanary(mcis[i])
                       /\ ~mcis[i].DefaultBackend.Nil
                       /\ mcis[i].DefaultBackend.Service # NilService
                       /\ mcis[i].Rules = <<>>
            /\ root.Redirect = created.Redirect
            /\ root.Rewrite = created.Rewrite

\* the aliases of the first non-canary resource of the pass that has a rule
\* for the host and names aliases
firstAliases(host) ==
    LET naming == {i \in 1..Len(mcis) :
                      /\ ~isCanary(mcis[i])
                      /\ \E r \in 1..Len(mcis[i].Rules) :
                             ruleHost(mcis[i].Rules[r]) = host
                      /\ ParsedAnnotations(mcis[i]).Aliases # <<>>}
    IN  IF naming = {} THEN <<>>
        ELSE ParsedAnnotations(mcis[FirstOf(naming)]).Aliases

\* C21: after the Server Builder, the alias list of a server has no alias
\* equal to its hostname, none equal to the hostname of a server, no alias
\* twice, and only aliases of the first resource that names aliases for it.
C21_AliasesDeduplicated ==
    ServersBuilt =>
        \A h \in DOMAIN servers :
            LET aliases == servers[h].Aliases
            IN  /\ \A k \in 1..Len(aliases) :
                       /\ aliases[k] # h
                       /\ aliases[k] \notin DOMAIN servers
                       /\ Occurrences(aliases, aliases[k]) = 1
                       /\ aliases[k] \in SeqToSet(firstAliases(h))
                /\ \A x \in SeqToSet(firstAliases(h)) :
                       x # h /\ x \notin DOMAIN servers => x \in SeqToSet(aliases)

\* a server that kept aliases of a list from which its own hostname, the
\* hostname of another server and a repetition were dropped
C21_Witness ==
    /\ ServersBuilt
    /\ \E h \in DOMAIN servers :
           /\ servers[h].Aliases # <<>>
           /\ h \in SeqToSet(firstAliases(h))
           /\ \E x \in SeqToSet(firstAliases(h)) : x # h /\ x \in DOMAIN servers
           /\ \E x \in SeqToSet(servers[h].Aliases) :
                  Occurrences(firstAliases(h), x) > 1

\* C22: the certificate of a server is the one the first non-canary resource
\* with a TLS section and a rule on the host resolves, whatever later resources
\* and rules resolve; a server no such resource has a rule on has none, and
\* the catch-all server keeps the default certificate.
C22_CertificateFirstWins ==
    ServersBuilt =>
        /\ servers[defServerName].SSLCert = getDefaultSSLCertificate
        /\ \A h \in (DOMAIN servers) \ {defServerName} :
               servers[h].SSLCert =
                   IF tlsResource(h) = 0 THEN NilCert
                   ELSE resolveCertificate(h, mcis[tlsResource(h)])

\* two resources with a TLS section on one host that resolve to different
\* certificates
C22_Witness ==
    /\ ServersBuilt
    /\ Len(mcis) = 2
    /\ \E h \in (DOMAIN servers) \ {defServerName} :
           /\ tlsResource(h) = 1
           /\ Len(mcis[2].TLS) > 0
           /\ \E r \in 1..Len(mcis[2].Rules) : ruleHost(mcis[2].Rules[r]) = h
           /\ resolveCertificate(h, mcis[2]) # resolveCertificate(h, mcis[1])
           /\ servers[h].SSLCert = resolveCertificate(h, mcis[1])

\* the resources of the pass that ask for cookie affinity and route a path
\* to the backend named b
cookieRequesters(b) ==
    {i \in 1..Len(mcis) :
        /\ ~isCanary(mcis[i])
        /\ ParsedAnnotations(mcis[i]).SessionAffinity.Type = "cookie"
        /\ \E r \in 1..Len(mcis[i].Rules) :
               /\ mcis[i].Rules[r].HTTP
               /\ \E q \in 1..Len(mcis[i].Rules[r].Paths) :
                      /\ mcis[i].Rules[r].Paths[q].Service # NilService
                      /\ upstreamName(mcis[i].Namespace,
                                      mcis[i].Rules[r].Paths[q].Service) = b}

\* C23: after the wiring, the cookie name of a backend is the one of the first
\* resource that asks for cookie affinity and routes to the backend.
C23_CookiePolicyFirstWins ==
    pc = "merge" =>
        \A b \in DOMAIN upstreams :
            cookieRequesters(b) # {} =>
                upstreams[b].SessionAffinity.CookieSessionAffinity.Name
                    = ParsedAnnotations(mcis[FirstOf(cookieRequesters(b))])
                          .SessionAffinity.Cookie.Name

\* the resources of the pass that refer to the service behind backend b
referrers(b) ==
    {i \in 1..Len(mcis) : \E ref \in referencedServices(<<mcis[i]>>) :
                              upstreamName(ref[1], ref[2]) = b}

\* C24: after the Upstream Builder, a backend whose resources all ask for
\* service-upstream has exactly the one cluster endpoint when the cluster
\* address resolves, and no endpoint when it does not.
C24_ServiceUpstreamEndpoints ==
    pc = "servers" =>
        \A b \in (DOMAIN upstreams) \ {defUpstreamName} :
            (/\ referrers(b) # {}
             /\ \A i \in referrers(b) : ParsedAnnotations(mcis[i]).ServiceUpstream)
            => IF endpoints[b[2]] = "ok"
               THEN upstreams[b].Endpoints = <<<<b[2], "cluster-ip">>>>
               ELSE upstreams[b].Endpoints = <<>>

\* C25: after the Upstream Builder, a backend that only one resource refers
\* to, a canary one, is flagged NoServer and has the weight and the weight
\* total of the canary annotations of the resource.
C25_CanaryPolicyStamped ==
    pc = "servers" =>
        \A b \in (DOMAIN upstreams) \ {defUpstreamName} :
            \A i \in referrers(b) :
                (referrers(b) = {i} /\ isCanary(mcis[i])) =>
                    /\ upstreams[b].NoServer
                    /\ upstreams[b].TrafficShapingPolicy.Weight
                           = ParsedAnnotations(mcis[i]).Canary.Weight
                    /\ upstreams[b].TrafficShapingPolicy.WeightTotal
                           = ParsedAnnotations(mcis[i]).Canary.WeightTotal

\* C26: the overlap check is evaluated on the pass over the admitted
\* resources without the earlier version of the candidate, with the candidate
\* last; a conflict it finds ends CheckMCI with that error whatever the
\* configuration; the pass over the candidate alone starts only from a check
\* that found no conflict, and only when full validation is disabled.
C26_OverlapBeforeReduction ==
    [][/\ pc = "overlap" =>
              /\ pass = "full"
              /\ mcis = Append(FilterMultiClusterIngress(store, cand[1]),
                               SetDefaultNGINXPathType(cand[1]))
              /\ checkOverlapWithMCI(cand[1], pcfgServers, mcis) # NoError =>
                     /\ pc' = "returned"
                     /\ checkErr' = checkOverlapWithMCI(cand[1], pcfgServers, mcis)
       /\ pass' = "reduced" /\ pass # "reduced" =>
              /\ pc = "overlap"
              /\ cfg.DisableFullValidationTest
              /\ checkOverlapWithMCI(cand[1], pcfgServers, mcis) = NoError
              /\ mcis' = <<SetDefaultNGINXPathType(cand[1])>>
       /\ pc = "overlap" /\ pc' = "render" => ~cfg.DisableFullValidationTest
       /\ pc' = "render" => pass' = IF cfg.DisableFullValidationTest
                                    THEN "reduced" ELSE "full"]_vars

\* CheckMCI returned a conflict with an admitted resource while full
\* validation is disabled
C26_Witness ==
    /\ pc = "returned"
    /\ cfg.DisableFullValidationTest
    /\ checkErr.kind = "conflict"
    /\ Len(mcis) = 2

\* the names of the backends of the final backend list
finalBackendNames == {aUpstreams[k].Name : k \in 1..Len(aUpstreams)}

\* C27: after a pass every name in the AlternativeBackends of a backend of the
\* final backend list is the name of a backend of that list.
C27_AlternativeBackendsPresent ==
    PassDone =>
        \A k \in 1..Len(aUpstreams) :
            \A x \in 1..Len(aUpstreams[k].AlternativeBackends) :
                aUpstreams[k].AlternativeBackends[x] \in finalBackendNames

\* C28: after a pass the Backend of every location of every server is the
\* name of a backend of the final backend list.
C28_LocationBackendsPresent ==
    PassDone =>
        \A k \in 1..Len(aServers) :
            \A x \in 1..Len(aServers[k].Locations) :
                aServers[k].Locations[x].Backend \in finalBackendNames

\* C29: the final backend list of a pass has no two backends with the same
\* name.
C29_BackendNamesUnique ==
    PassDone =>
        \A k, x \in 1..Len(aUpstreams) :
            aUpstreams[k].Name = aUpstreams[x].Name => k = x

\* the candidate passes the checks that make CheckMCI return nil at once
noOpAccepted ==
    \/ cand = <<>>
    \/ cand[1].Deleted
    \/ (cfg.Namespace # "" /\ cand[1].Namespace # cfg.Namespace)

\* C30: when CheckMCI has returned for a candidate the no-op checks did not
\* accept, exactly one of the two admission counters was incremented, once:
\* the error counter when it returned an error, the success counter when it
\* returned nil.
C30_OneCounterPerCheck ==
    (mode = "check" /\ pc = "returned" /\ ~noOpAccepted) =>
        /\ errorCount + checkCount = 1
        /\ errorCount = 1 <=> checkErr # NoError
        /\ checkCount = 1 <=> checkErr = NoError

====
